---- MODULE Spec2Model ----
\* modelplex: model multiplexer, OpenAI-shaped proxy handlers and the
\* streaming engine of the provider adaptors.
\*
\* The specifications share the variables below:
\*   SpecMux  the multiplexer over every small provider configuration
\*            (resolution by model id, capability delegation, model catalog);
\*   Spec     one HTTP request through the proxy handler, the multiplexer,
\*            a provider adaptor and its streaming reader goroutine;
\*   SpecServer      one Server instance under concurrent Start and Stop calls;
\*   SpecServerFair  the same with the scheduler running every started call;
\*   SpecReady       SpecServer with a WaitReady call beside the other calls;
\*   SpecProvider    one provider adaptor: construction, chat request, listing;
\*   SpecResolve     resolutions while the upstreams change their listings;
\*   SpecIngress     a chat request with its messages, up to the upstream request;
\*   SpecRoutes      requests to the router of a serving Server;
\*   SpecEngine      the readers of an SSE body that holds end markers;
\*   SpecEngineFair  the readers with the scheduler running the reader goroutine;
\*   SpecPair        two streaming requests served at the same time;
\*   SpecRestart     SpecServer with every Start traced against the Stop calls.
EXTENDS Integers, Sequences, FiniteSets, TLC

\* --------------------------------------------------------------------------
\* Bounds of the model
\* --------------------------------------------------------------------------
MaxProviders == 2       \* providers in a configuration (SpecMux)
MaxModels    == 2       \* declared models per provider (SpecMux)
MaxPriority  == 2       \* priorities are 1..MaxPriority (SpecMux)
MaxLines     == 3       \* lines in an upstream streaming body (Spec)
MaxStarts    == 2       \* Start calls on the instance (SpecServer)
MaxStops     == 2       \* Stop calls on the instance (SpecServer)
MaxMsgs      == 2       \* messages of a chat request (SpecProvider)
MaxPairLines == 2       \* lines of each body of two concurrent streams (SpecPair)

\* --------------------------------------------------------------------------
\* Program constants
\* --------------------------------------------------------------------------
StatusOK                  == 200
StatusBadRequest          == 400
StatusInternalServerError == 500
defaultModelCreated       == 1677610602
DoneCap                   == 1       \* make(chan error, 1)

\* --------------------------------------------------------------------------
\* Strings. A string is a sequence of tokens; the literals the code tests for
\* ("modelplex-", "data: ", "[DONE]", white space) are tokens of their own, so
\* HasPrefix / TrimPrefix / TrimSpace are computed on the sequence.
\* --------------------------------------------------------------------------
Str(t) == <<t>>

HasPrefix(s, p) == Len(s) >= 1 /\ s[1] = p

TrimPrefix(s, p) == IF HasPrefix(s, p) THEN Tail(s) ELSE s

HasSuffix(s, p) == Len(s) >= 1 /\ s[Len(s)] = p

TrimSuffix(s, p) == IF HasSuffix(s, p) THEN SubSeq(s, 1, Len(s) - 1) ELSE s

IsSpace(t) == t \in {" ", "\n", "\r", "\t"}

RECURSIVE TrimLeft(_)
TrimLeft(s) ==
    IF s = <<>> THEN s
    ELSE IF IsSpace(s[1]) THEN TrimLeft(Tail(s)) ELSE s

RECURSIVE TrimRight(_)
TrimRight(s) ==
    IF s = <<>> THEN s
    ELSE IF IsSpace(s[Len(s)]) THEN TrimRight(SubSeq(s, 1, Len(s) - 1))
    ELSE IF s[Len(s)] = "data: " THEN SubSeq(s, 1, Len(s) - 1) \o <<"data:">>
    ELSE s

\* strings.TrimSpace
TrimSpace(s) == TrimRight(TrimLeft(s))

\* --------------------------------------------------------------------------
\* Provider configuration and the multiplexer
\* --------------------------------------------------------------------------
ModelIds == {Str("a"), Str("b")}

ProviderNames == <<"p1", "p2", "p3", "p4">>

ProviderKinds == {"openai", "anthropic", "ollama"}

RECURSIVE SeqsUpTo(_, _)
SeqsUpTo(S, n) ==
    IF n = 0 THEN {<<>>}
    ELSE LET shorter == SeqsUpTo(S, n - 1)
         IN  shorter \cup {Append(s, x) : s \in {t \in shorter : Len(t) = n - 1}, x \in S}

\* a provider as the multiplexer sees it: Name(), ListModels(), Priority()
Provider(n, k, ms, p) == [name |-> n, kind |-> k, models |-> ms, priority |-> p]

Contains(ms, m) == \E i \in 1..Len(ms) : ms[i] = m

MoreUrgentLast(p, q) == p <= q

\* priority p is preferred to priority q: the lower number is the more urgent,
\* and an equal one is not, so the earlier provider keeps a tie
MoreUrgent(p, q) == p < q

\* selection for a model id: index of the chosen provider, 0 when none declares it
RECURSIVE ScanProviders(_, _, _, _)
ScanProviders(ps, m, i, best) ==
    IF i > Len(ps) THEN best
    ELSE IF Contains(ps[i].models, m)
            /\ (best = 0 \/ MoreUrgent(ps[i].priority, ps[best].priority))
         THEN ScanProviders(ps, m, i + 1, i)
         ELSE ScanProviders(ps, m, i + 1, best)

GetProviderNoFilter(ps, m) ==
    IF ps = <<>> THEN 0
    ELSE CHOOSE i \in 1..Len(ps) :
            \A j \in 1..Len(ps) : ps[i].priority < ps[j].priority
                                  \/ (ps[i].priority = ps[j].priority /\ i <= j)

GetProvider(ps, m) == ScanProviders(ps, m, 1, 0)

\* aggregated catalog ids: providers in configuration order, first encounter kept
RECURSIVE AppendNew(_, _)
AppendNew(acc, ms) ==
    IF ms = <<>> THEN acc
    ELSE AppendNew(IF Contains(acc, ms[1]) THEN acc ELSE Append(acc, ms[1]), Tail(ms))

RECURSIVE ListModelsFrom(_, _, _)
ListModelsFrom(ps, i, acc) ==
    IF i > Len(ps) THEN acc
    ELSE ListModelsFrom(ps, i + 1, AppendNew(acc, ps[i].models))

ListModels(ps) == ListModelsFrom(ps, 1, <<>>)

\* name of the first provider in configuration order that declares m (the
\* owner the catalog tests expect)
OwnerFirstDeclaring(ps, m) ==
    IF \E i \in 1..Len(ps) : Contains(ps[i].models, m)
    THEN ps[CHOOSE i \in 1..Len(ps) :
              /\ Contains(ps[i].models, m)
              /\ \A j \in 1..(i - 1) : ~Contains(ps[j].models, m)].name
    ELSE "modelplex"

\* the OwnedBy field HandleModels writes
OwnedBy(ps, m) == "modelplex"

ModelInfo(ps, m) ==
    [id |-> m, object |-> "model", created |-> defaultModelCreated, owned_by |-> OwnedBy(ps, m)]

\* GET /models
HandleModels(ps) ==
    LET models == ListModels(ps)
    IN  [object |-> "list",
         data   |-> [i \in 1..Len(models) |-> ModelInfo(ps, models[i])]]

\* a capability operation of the multiplexer (ChatCompletion, Completion,
\* ChatCompletionStream, CompletionStream): resolve, then delegate
MuxOps == {"ChatCompletion", "Completion", "ChatCompletionStream", "CompletionStream"}

NoSelection == [done |-> FALSE, idx |-> 0, err |-> "nil"]

Delegate(ps, m) ==
    LET idx == GetProvider(ps, m)
    IN  [done |-> TRUE, idx |-> idx,
         err  |-> IF idx = 0 THEN "NoProviderForModel" ELSE "nil"]

Call(ps, sel, op, m) == [provider |-> ps[sel.idx].name, op |-> op, model |-> m]

\* --------------------------------------------------------------------------
\* JSON texts and values (encoding/json on the texts the model uses)
\* --------------------------------------------------------------------------
J1   == "{\"c\":1}"
J2   == "{\"c\":2}"
J2ws == "{ \"c\": 2 }"

NoValue == [c |-> 0]

\* json.Unmarshal: one JSON text, white space around it ignored
Unmarshal(s) ==
    LET t == TrimLeft(TrimRight(s))
    IN  IF Len(t) = 1 /\ t[1] \in {J1, J2, J2ws}
        THEN [ok |-> TRUE, val |-> IF t[1] = J1 THEN [c |-> 1] ELSE [c |-> 2]]
        ELSE [ok |-> FALSE, val |-> NoValue]

\* json.Marshal: the compact text of a decoded value
Marshal(v) == IF v.c = 1 THEN J1 ELSE IF v.c = 2 THEN J2 ELSE "null"

\* --------------------------------------------------------------------------
\* Streaming engine: one upstream line to at most one chunk
\* --------------------------------------------------------------------------
DataPrefix == "data: "
DoneToken  == "[DONE]"

\* bodies an SSE upstream (OpenAI-compatible, Anthropic) and a line-delimited
\* JSON upstream (Ollama) send, including lines the engine must drop
SSELines == { <<>>,
              <<DataPrefix, J1>>,
              <<DataPrefix, J2ws>>,
              <<DataPrefix, "garbage">>,
              <<DataPrefix, DoneToken>>,
              <<J1>> }

NDJSONLines == { <<>>,
                 <<J1>>,
                 <<J2ws>>,
                 <<DataPrefix, J1>> }

SSEBodies    == SeqsUpTo(SSELines, MaxLines)
NDJSONBodies == SeqsUpTo(NDJSONLines, MaxLines)

StreamBodies(sse) == IF sse THEN SSEBodies ELSE NDJSONBodies

\* parseSSELine: chunk and error ("nil", "skip", "done", "parse")
parseSSELine(line) ==
    IF ~HasPrefix(line, DataPrefix) THEN [chunk |-> NoValue, err |-> "skip"]
    ELSE LET data == TrimPrefix(line, DataPrefix)
         IN  IF data = <<DoneToken>> THEN [chunk |-> NoValue, err |-> "done"]
             ELSE LET u == Unmarshal(data)
                  IN  [chunk |-> u.val, err |-> IF u.ok THEN "nil" ELSE "parse"]

\* the response transformer of a provider kind: "none" when the adaptor sets
\* none; the Anthropic and Ollama transformers pass the chunk through
HasTransformer(kind) == kind \in {"anthropic", "ollama"}

transformStreamingResponse(kind, chunk) == chunk

\* what the reader does with a parsed chunk: "send" it or "skip" it
Transformed(kind, chunk) ==
    IF HasTransformer(kind)
    THEN LET c == transformStreamingResponse(kind, chunk)
         IN  [act |-> IF c = NoValue THEN "skip" ELSE "send", chunk |-> c]
    ELSE [act |-> "send", chunk |-> chunk]

\* parseStreamingLine of the shared engine: (chunk, shouldContinue) as an act;
\* "done", "skip" and a parse error all give shouldContinue = false, and the
\* caller's loop then continues with the next line
parseStreamingLine(line, sse, kind) ==
    LET p == IF sse THEN parseSSELine(line)
             ELSE LET u == Unmarshal(line)
                  IN  [chunk |-> u.val, err |-> IF u.ok THEN "nil" ELSE "parse"]
    IN  IF p.err # "nil" THEN [act |-> "skip", chunk |-> NoValue]
        ELSE Transformed(kind, p.chunk)

\* the loop body of the adaptors' own reader (OpenAI, Anthropic): SSE only,
\* the end marker returns from the goroutine
inlineStreamingLine(line, kind) ==
    IF ~HasPrefix(line, DataPrefix) THEN [act |-> "skip", chunk |-> NoValue]
    ELSE LET data == TrimPrefix(line, DataPrefix)
         IN  IF data = <<DoneToken>> THEN [act |-> "return", chunk |-> NoValue]
             ELSE LET u == Unmarshal(data)
                  IN  IF ~u.ok THEN [act |-> "skip", chunk |-> NoValue]
                      ELSE Transformed(kind, u.val)

\* one scanned line: trim, skip when empty, else parse by engine
LineStep(eng, sse, kind, raw) ==
    LET line == TrimSpace(raw)
    IN  IF line = <<>> THEN [act |-> "skip", chunk |-> NoValue]
        ELSE IF eng = "shared" THEN parseStreamingLine(line, sse, kind)
        ELSE inlineStreamingLine(line, kind)

\* the deferred resp.Body.Close() of the shared engine runs when
\* makeStreamingRequest returns; the adaptors' own readers close in the goroutine
ClosesBodyOnReturn(eng) == eng = "shared"

\* upstream status that makes the request fail
UpstreamFailedOutside2xx(status) == status < 200 \/ status > 299

UpstreamFailedFrom500(status) == status >= StatusInternalServerError

UpstreamFailed(status) == status # StatusOK

\* client.Do on a request built with the caller's context fails once that
\* context is cancelled
DoIgnoresContext(cancelledNow) == FALSE

DoFailsOnCancel(cancelledNow) == cancelledNow

\* --------------------------------------------------------------------------
\* The caller-facing response writer (http.ResponseWriter)
\* --------------------------------------------------------------------------
NewWriter == [status |-> 0, headerCalls |-> 0, ctype |-> "", body |-> <<>>]

\* Header().Set("Content-Type", ct): no effect once the header is written
SetContentType(w, ct) == IF w.status = 0 THEN [w EXCEPT !.ctype = ct] ELSE w

\* WriteHeader(code): the first call commits the status, later ones are superfluous
WriteHeader(w, code) ==
    [w EXCEPT !.headerCalls = @ + 1, !.status = IF @ = 0 THEN code ELSE @]

\* Write(data): commits 200 when no header was written; a broken connection
\* delivers nothing and returns an error
WriteBody(w, data, broken) ==
    LET h == IF w.status = 0 THEN WriteHeader(w, StatusOK) ELSE w
    IN  IF broken THEN h ELSE [h EXCEPT !.body = Append(@, data)]

\* outcomes of a write to the caller: the connection may break at any write,
\* and stays broken
WriteOutcomes(brokenBefore) == IF brokenBefore THEN {TRUE} ELSE BOOLEAN

ChunkFrame(v) == <<DataPrefix, Marshal(v), "\n\n">>
DoneFrame     == <<DataPrefix, DoneToken, "\n\n">>

ErrorEnvelope(msg) ==
    <<"{\"error\":{\"message\":\"", msg, "\",\"type\":\"invalid_request_error\"}}", "\n">>

\* the two versions of the proxy's error reply: http.Error (proxy.go) and
\* writeError (the JSON error envelope)
Builds == {"http.Error", "writeError"}

WriteErrorReply(w, b, code, msg, broken) ==
    IF b = "writeError"
    THEN WriteBody(WriteHeader(SetContentType(w, "application/json"), code),
                   ErrorEnvelope(msg), broken)
    ELSE WriteBody(WriteHeader(SetContentType(w, "text/plain; charset=utf-8"), code),
                   <<msg, "\n">>, broken)

\* normalizeModel: one leading "modelplex-" removed
ModelPrefix == "modelplex-"

RECURSIVE normalizeModelAll(_)
normalizeModelAll(m) == IF HasPrefix(m, ModelPrefix) THEN normalizeModelAll(Tail(m)) ELSE m

normalizeModelNonEmpty(m) ==
    IF HasPrefix(m, ModelPrefix) /\ Len(m) > 1 THEN TrimPrefix(m, ModelPrefix) ELSE m

normalizeModel(m) == IF HasPrefix(m, ModelPrefix) THEN TrimPrefix(m, ModelPrefix) ELSE m

\* `if err != nil` of the handlers after a multiplexer operation returned
SetupFailedNever(err) == FALSE

SetupFailed(err) == err # "nil"

\* where writeSSEResponse goes when the chunk channel is closed: the [DONE] marker
AfterStreamEndReturn == "done"

AfterStreamEnd == "marker"

\* --------------------------------------------------------------------------
\* State
\* --------------------------------------------------------------------------
VARIABLES
    providers,    \* the multiplexer's providers, in configuration order
    query,        \* the model id the multiplexer is asked for
    selected,     \* result of the multiplexer's resolution
    catalog,      \* SpecMux: the reply of GET /models
    calls,        \* provider operations the multiplexer has invoked
    build,        \* which version of the proxy's error reply runs
    req,          \* the HTTP request: body decodes?, endpoint, model, stream key
    invoked,      \* multiplexer operations the handler has called
    flusherOK,    \* writeSSEResponse obtained the writer's http.Flusher
    hpc,          \* position of the handler
    model,        \* normalized model id
    herr,         \* error returned to the handler
    result,       \* decoded body of a non-streaming upstream reply
    kind,         \* kind of the selected provider
    engine,       \* reader of the streaming body: "inline" or "shared"
    useSSE,       \* framing of the streaming body
    cancelled,    \* the request context is cancelled
    cancelFirst,  \* it was cancelled before an upstream status was observed
    connBroken,   \* the connection to the caller is broken: writes fail
    writeFailed,  \* a write to the caller returned an error
    upStatus,     \* upstream status observed by client.Do, 0 before
    upBody,       \* upstream body of a non-streaming reply
    upstream,     \* upstream body of a streaming reply, as lines
    rd,           \* lines the scanner has read from the body
    pos,          \* lines the scanner has returned
    bodyClosed,   \* resp.Body.Close() was called
    rpc,          \* position of the reader goroutine
    chunk,        \* the chunk the reader offers on the channel
    chanClosed,   \* close(streamChan) was called
    hchunk,       \* the chunk the handler received
    w,            \* the response writer
    srv,          \* the Server instance: mode, listener, server handle, channels
    sockFile,     \* what is on disk at the socket path
    mtx,          \* holder of startMtx, 0 when free
    starts,       \* the Start calls: position, start error, returned channel
    stops,        \* the Stop calls: position and what they observed
    wait,         \* a WaitReady call: position, deadline, result
    env,          \* the process environment: the variable NAME
    pcfg,         \* the config.Provider a provider is constructed from
    prov,         \* the constructed provider
    out,          \* what the last provider operation sent upstream or returned
    tags,         \* what the upstream of each provider answers to a model listing
    reqMessages,  \* SpecIngress: the decoded messages of the chat request
    pair          \* SpecPair: two streaming requests, each with its reader and handler

muxVars == <<providers, query, selected, catalog, calls>>

reqVars == <<build, req, invoked, flusherOK, hpc, model, herr, result, kind, engine, useSSE,
             cancelled, cancelFirst, connBroken, writeFailed, upStatus, upBody, w>>

streamVars == <<upstream, rd, pos, bodyClosed, rpc, chunk, chanClosed, hchunk>>

srvVars == <<srv, sockFile, mtx, starts, stops>>

\* state of the operations modelled beside the request and the server calls
waitVars == <<wait>>

provVars == <<env, pcfg, prov, out>>

resVars == <<tags>>

ingVars == <<reqMessages>>

pairVars == <<pair>>

extVars == <<waitVars, provVars, resVars, ingVars, pairVars>>

vars == <<muxVars, reqVars, streamVars, srvVars, extVars>>

\* --------------------------------------------------------------------------
\* Initial states
\* --------------------------------------------------------------------------
ModelLists == SeqsUpTo(ModelIds, MaxModels)

\* a configuration of n providers: the i-th is named ProviderNames[i], declares
\* ms[i] and has priority pr[i]
Config(n, ms, pr) ==
    [i \in 1..n |-> Provider(ProviderNames[i], "openai", ms[i], pr[i])]

Queries == ModelIds \cup {Str("c")}

\* the configuration the request runs against: one provider of each kind
ServedProviders ==
    << Provider("openai", "openai", <<Str("gpt-4")>>, 1),
       Provider("anthropic", "anthropic", <<Str("claude-3-sonnet")>>, 1),
       Provider("ollama", "ollama", <<Str("llama2")>>, 2) >>

RequestModels == { Str("gpt-4"),
                   <<ModelPrefix, "claude-3-sonnet">>,
                   Str("llama2"),
                   <<ModelPrefix>>,
                   <<ModelPrefix, ModelPrefix, "x">> }

Endpoints == {"/chat/completions", "/completions"}

\* the "stream" key of the body: absent, or present with a boolean
StreamKeys == {"absent", "false", "true"}

Requests == [valid : BOOLEAN, endpoint : Endpoints, model : RequestModels, stream : StreamKeys]

IdleRequest == [valid |-> TRUE, endpoint |-> "/chat/completions", model |-> <<>>, stream |-> "absent"]

\* a Server as its constructor leaves it (NewWithSocket, NewWithHTTP, New):
\* no listener, no server handle, channels open. `variant` is the source
\* version: "atomic" (server.go, atomic pointers and a ready channel) or
\* "mutex" (plain fields, no ready channel)
NewServer(variant, useSocket, file) ==
    [variant |-> variant, useSocket |-> useSocket, preexisting |-> file,
     listener |-> "nil", server |-> "nil", shutdown |-> FALSE,
     started |-> FALSE, ready |-> FALSE, readyCloses |-> 0,
     binds |-> 0, panics |-> 0, addr |-> "nil"]

\* ranAfterBind records whether the listener had been bound when the call ran
\* its critical section. afterStop is a history field of the calls that are
\* traced (SpecRestart): whether a Stop that shut the instance down had
\* returned when the call was made
NoStart == [pc |-> "idle", err |-> "nil", done |-> <<>>, serve |-> "none",
            ranAfterBind |-> FALSE, traced |-> FALSE, afterStop |-> FALSE]

TracedStart == [NoStart EXCEPT !.traced = TRUE]

NoStop == [pc |-> "idle", early |-> FALSE, sawReady |-> FALSE, sawServer |-> FALSE,
           removeErr |-> "", logged |-> FALSE]

\* a WaitReady call before it is made
NoWait == [pc |-> "idle", expired |-> FALSE, readyFirst |-> FALSE, result |-> ""]

\* the environment: NAME is not set, or holds a value
EnvUnset == [set |-> FALSE, value |-> <<>>]

EnvValues == {EnvUnset, [set |-> TRUE, value |-> Str("k1")], [set |-> TRUE, value |-> Str("k2")]}

\* api_key of a provider entry: a literal, or the reference ${NAME}
LiteralKey == Str("sk-literal")

ReferenceKey == <<"${", "NAME", "}">>

NoProvider == [kind |-> "none", apiKey |-> <<>>, models |-> <<>>]

NoOut == [op |-> "none"]

IdleConfig == [kind |-> "ollama", apiKey |-> <<>>, models |-> <<>>]

InitProviderIdle ==
    /\ env = EnvUnset
    /\ pcfg = IdleConfig
    /\ prov = NoProvider
    /\ out = NoOut
    /\ tags = <<>>
    /\ reqMessages = <<>>
    /\ pair = <<>>

InitServerIdle ==
    /\ wait = NoWait
    /\ InitProviderIdle
    /\ srv = NewServer("atomic", FALSE, "none")
    /\ sockFile = "none"
    /\ mtx = 0
    /\ starts = <<>>
    /\ stops = <<>>

InitStream ==
    /\ upstream = <<>>
    /\ rd = 0
    /\ pos = 0
    /\ bodyClosed = FALSE
    /\ rpc = "none"
    /\ chunk = NoValue
    /\ chanClosed = FALSE
    /\ hchunk = NoValue

InitRequest(r, b, f, pc) ==
    /\ build = b
    /\ req = r
    /\ invoked = <<>>
    /\ flusherOK = f
    /\ hpc = pc
    /\ model = <<>>
    /\ herr = "nil"
    /\ result = NoValue
    /\ kind = "none"
    /\ engine = "none"
    /\ useSSE = FALSE
    /\ cancelled = FALSE
    /\ cancelFirst = FALSE
    /\ connBroken = FALSE
    /\ writeFailed = FALSE
    /\ upStatus = 0
    /\ upBody = <<>>
    /\ w = NewWriter

InitMux ==
    /\ \E n \in 0..MaxProviders :
         \E ms \in [1..n -> ModelLists], pr \in [1..n -> 1..MaxPriority] :
             providers = Config(n, ms, pr)
    /\ query \in Queries
    /\ selected = NoSelection
    /\ catalog = [done |-> FALSE, object |-> "", data |-> <<>>]
    /\ calls = <<>>
    /\ InitRequest(IdleRequest, "writeError", FALSE, "idle")
    /\ InitStream
    /\ InitServerIdle

Init ==
    /\ providers = ServedProviders
    /\ query = <<>>
    /\ selected = NoSelection
    /\ catalog = [done |-> FALSE, object |-> "", data |-> <<>>]
    /\ calls = <<>>
    /\ \E r \in Requests, b \in Builds : InitRequest(r, b, FALSE, "start")
    /\ InitStream
    /\ InitServerIdle

\* --------------------------------------------------------------------------
\* SpecMux: the multiplexer's operations on a configuration
\* --------------------------------------------------------------------------
\* a capability operation for the queried model: resolve, then invoke the
\* provider's operation; NoProviderForModel invokes nothing
MuxOperation ==
    /\ ~selected.done
    /\ \E op \in MuxOps :
         LET sel == Delegate(providers, query)
         IN  /\ selected' = sel
             /\ calls' = IF sel.err = "nil"
                          THEN Append(calls, Call(providers, sel, op, query))
                          ELSE calls
    /\ UNCHANGED <<providers, query, catalog, reqVars, streamVars>>
    /\ UNCHANGED <<srvVars, extVars>>

\* GET /models
MuxHandleModels ==
    /\ ~catalog.done
    /\ catalog' = [done |-> TRUE] @@ HandleModels(providers)
    /\ UNCHANGED <<providers, query, selected, calls, reqVars, streamVars>>
    /\ UNCHANGED <<srvVars, extVars>>

NextMux ==
    \/ MuxOperation
    \/ MuxHandleModels

SpecMux == InitMux /\ [][NextMux]_vars

\* --------------------------------------------------------------------------
\* Spec: one request through handler, multiplexer, adaptor and reader
\* --------------------------------------------------------------------------
\* statuses an upstream answers with, and bodies of a non-streaming answer
Statuses == {StatusOK, 201, 404, StatusInternalServerError}

ReplyBodies == {<<J1>>, <<J2ws, "\n">>, <<"garbage">>}

StreamUnlessFalse(r) == r.stream # "false"

\* the decoded Stream field (`json:"stream,omitempty"`): false when the key is absent
StreamOf(r) == r.stream = "true"

\* the multiplexer operation a handler calls
OpFor(r) ==
    IF r.endpoint = "/chat/completions"
    THEN IF StreamOf(r) THEN "ChatCompletionStream" ELSE "ChatCompletion"
    ELSE IF StreamOf(r) THEN "CompletionStream" ELSE "Completion"

\* the reader an adaptor runs on a streaming body: the OpenAI and Anthropic
\* adaptors their own loop, the Ollama adaptor the shared engine
EngineOf(k) == IF k = "ollama" THEN "shared" ELSE "inline"

\* framing the adaptor asks for: SSE, or line-delimited JSON for Ollama
UseSSEOf(k) == k # "ollama"

\* HandleChatCompletions / HandleCompletions up to the multiplexer call:
\* decodeJSONRequest answers 400 on a body that does not decode, else the
\* model id is normalized
HandleDecode ==
    /\ hpc = "start"
    /\ IF req.valid
       THEN /\ model' = normalizeModel(req.model)
            /\ hpc' = "mux"
            /\ UNCHANGED <<w, connBroken>>
       ELSE /\ \E broken \in WriteOutcomes(connBroken) :
                 /\ connBroken' = broken
                 /\ w' = WriteErrorReply(w, build, StatusBadRequest, "Invalid JSON", broken)
            /\ hpc' = "done"
            /\ model' = model
    /\ UNCHANGED <<muxVars, streamVars, build, req, invoked, flusherOK, herr, result, kind, engine,
                   useSSE, cancelled, cancelFirst, writeFailed, upStatus, upBody>>
    /\ UNCHANGED <<srvVars, extVars>>

\* the handler calls the multiplexer's capability operation for the decoded
\* stream flag; the multiplexer resolves the provider for the model id it is
\* given, then invokes that provider's operation
MuxDispatch ==
    /\ hpc = "mux"
    /\ invoked' = Append(invoked, OpFor(req))
    /\ query' = model
    /\ LET sel == Delegate(providers, model)
       IN  /\ selected' = sel
           /\ IF sel.err # "nil"
              THEN /\ herr' = sel.err
                   /\ hpc' = "back"
                   /\ UNCHANGED <<calls, kind, engine, useSSE>>
              ELSE /\ calls' = Append(calls, Call(providers, sel, OpFor(req), model))
                   /\ kind' = providers[sel.idx].kind
                   /\ engine' = EngineOf(providers[sel.idx].kind)
                   /\ useSSE' = UseSSEOf(providers[sel.idx].kind)
                   /\ hpc' = "do"
                   /\ herr' = herr
    /\ UNCHANGED <<providers, catalog, streamVars, build, req, flusherOK, model, result,
                   cancelled, cancelFirst, connBroken, writeFailed, upStatus, upBody, w>>
    /\ UNCHANGED <<srvVars, extVars>>

\* client.Do of the adaptor. Streaming (makeStreamingRequest): a status other
\* than 200 closes the body and fails, else the channel is made and the reader
\* goroutine started. Non-streaming (makeRequest): the body is read next.
ProviderDo ==
    /\ hpc = "do"
    /\ \/ /\ DoFailsOnCancel(cancelled)
          /\ herr' = "TransportError"
          /\ hpc' = "back"
          /\ UNCHANGED <<upStatus, upBody, upstream, rpc, bodyClosed>>
       \/ /\ ~DoFailsOnCancel(cancelled)
          /\ \/ /\ herr' = "TransportError"
                /\ hpc' = "back"
                /\ UNCHANGED <<upStatus, upBody, upstream, rpc, bodyClosed>>
             \/ \E st \in Statuses :
                  /\ upStatus' = st
                  /\ IF StreamOf(req)
                     THEN IF UpstreamFailed(st)
                          THEN /\ herr' = "UpstreamError"
                               /\ hpc' = "back"
                               /\ bodyClosed' = TRUE
                               /\ UNCHANGED <<upBody, upstream, rpc>>
                          ELSE /\ \E b \in StreamBodies(useSSE) : upstream' = b
                               /\ rpc' = "scan"
                               /\ hpc' = "ret"
                               /\ UNCHANGED <<herr, upBody, bodyClosed>>
                     ELSE /\ \E b \in ReplyBodies : upBody' = b
                          /\ hpc' = "readall"
                          /\ UNCHANGED <<herr, upstream, rpc, bodyClosed>>
    /\ UNCHANGED <<muxVars, build, req, invoked, flusherOK, model, result, kind, engine, useSSE,
                   cancelled, cancelFirst, connBroken, writeFailed, w,
                   rd, pos, chunk, chanClosed, hchunk>>
    /\ UNCHANGED <<srvVars, extVars>>

\* makeRequest after client.Do: io.ReadAll, the status test, json.Unmarshal;
\* the deferred close runs on return
ProviderReadAll ==
    /\ hpc = "readall"
    /\ IF cancelled
       THEN herr' = "ReadError" /\ result' = result
       ELSE IF UpstreamFailed(upStatus)
       THEN herr' = "UpstreamError" /\ result' = result
       ELSE LET u == Unmarshal(upBody)
            IN  IF u.ok THEN herr' = herr /\ result' = u.val
                ELSE herr' = "DecodeError" /\ result' = result
    /\ bodyClosed' = TRUE
    /\ hpc' = "back"
    /\ UNCHANGED <<muxVars, build, req, invoked, flusherOK, model, kind, engine, useSSE,
                   cancelled, cancelFirst, connBroken, writeFailed, upStatus, upBody, w,
                   upstream, rd, pos, rpc, chunk, chanClosed, hchunk>>
    /\ UNCHANGED <<srvVars, extVars>>

\* makeStreamingRequest returns the channel; the shared engine's deferred
\* resp.Body.Close() runs here, while the reader goroutine is running
ReturnStream ==
    /\ hpc = "ret"
    /\ bodyClosed' = (bodyClosed \/ ClosesBodyOnReturn(engine))
    /\ hpc' = "back"
    /\ UNCHANGED <<muxVars, build, req, invoked, flusherOK, model, herr, result, kind, engine, useSSE,
                   cancelled, cancelFirst, connBroken, writeFailed, upStatus, upBody, w,
                   upstream, rd, pos, rpc, chunk, chanClosed, hchunk>>
    /\ UNCHANGED <<srvVars, extVars>>

\* the streaming branch of the handler after the operation failed
HandleStreamError ==
    /\ hpc = "back"
    /\ StreamOf(req)
    /\ SetupFailed(herr)
    /\ \E broken \in WriteOutcomes(connBroken) :
         /\ connBroken' = broken
         /\ w' = WriteErrorReply(w, build, StatusInternalServerError, "Internal server error", broken)
    /\ hpc' = "done"
    /\ UNCHANGED <<muxVars, streamVars, build, req, invoked, flusherOK, model, herr, result, kind, engine,
                   useSSE, cancelled, cancelFirst, writeFailed, upStatus, upBody>>
    /\ UNCHANGED <<srvVars, extVars>>

\* handleResponse: 500 on error, else writeJSONResponse; proxy.go answers an
\* encoding failure with http.Error, the other version only logs it
HandleResponse ==
    /\ hpc = "back"
    /\ ~StreamOf(req)
    /\ \E broken \in WriteOutcomes(connBroken) :
         /\ connBroken' = broken
         /\ IF SetupFailed(herr)
            THEN /\ w' = WriteErrorReply(w, build, StatusInternalServerError,
                                         "Internal server error", broken)
                 /\ writeFailed' = writeFailed
            ELSE LET w1 == WriteBody(SetContentType(w, "application/json"),
                                     <<Marshal(result), "\n">>, broken)
                 IN  /\ w' = IF broken /\ build = "http.Error"
                             THEN WriteErrorReply(w1, build, StatusInternalServerError,
                                                  "Internal server error", broken)
                             ELSE w1
                     /\ writeFailed' = broken
    /\ hpc' = "done"
    /\ UNCHANGED <<muxVars, streamVars, build, req, invoked, flusherOK, model, herr, result, kind, engine,
                   useSSE, cancelled, cancelFirst, upStatus, upBody>>
    /\ UNCHANGED <<srvVars, extVars>>

\* writeSSEResponse up to the loop: the SSE headers, WriteHeader(200), the
\* type assertion w.(http.Flusher) and the return when it fails
SSEHeader ==
    /\ hpc = "back"
    /\ StreamOf(req)
    /\ ~SetupFailed(herr)
    /\ w' = WriteHeader(SetContentType(w, "text/event-stream"), StatusOK)
    /\ \E ok \in BOOLEAN :
         /\ flusherOK' = ok
         /\ hpc' = IF ok THEN "recv" ELSE "done"
    /\ UNCHANGED <<muxVars, streamVars, build, req, invoked, model, herr, result, kind, engine,
                   useSSE, cancelled, cancelFirst, connBroken, writeFailed, upStatus, upBody>>
    /\ UNCHANGED <<srvVars, extVars>>

\* a channel with a buffer: the send returns without a receiver
ChanHandoffBuffered ==
    /\ rpc = "send"
    /\ rpc' = "scan"
    /\ UNCHANGED <<muxVars, reqVars, upstream, rd, pos, bodyClosed, chunk, chanClosed, hchunk>>
    /\ UNCHANGED <<srvVars, extVars>>

\* the unbuffered channel: the reader's send meets the handler's receive
ChanHandoff ==
    /\ hpc = "recv"
    /\ rpc = "send"
    /\ hchunk' = chunk
    /\ hpc' = "write"
    /\ rpc' = "scan"
    /\ UNCHANGED <<muxVars, build, req, invoked, flusherOK, model, herr, result, kind, engine, useSSE,
                   cancelled, cancelFirst, connBroken, writeFailed, upStatus, upBody, w,
                   upstream, rd, pos, bodyClosed, chunk, chanClosed>>
    /\ UNCHANGED <<srvVars, extVars>>

\* `for chunk := range streamChan` on the closed channel
RecvClosed ==
    /\ hpc = "recv"
    /\ chanClosed
    /\ hpc' = AfterStreamEnd
    /\ UNCHANGED <<muxVars, streamVars, build, req, invoked, flusherOK, model, herr, result, kind, engine,
                   useSSE, cancelled, cancelFirst, connBroken, writeFailed, upStatus, upBody, w>>
    /\ UNCHANGED <<srvVars, extVars>>

\* the loop body: marshal, write the frame, flush; a failed write returns
WriteChunk ==
    /\ hpc = "write"
    /\ \E broken \in WriteOutcomes(connBroken) :
         /\ connBroken' = broken
         /\ w' = WriteBody(w, ChunkFrame(hchunk), broken)
         /\ writeFailed' = (writeFailed \/ broken)
         /\ hpc' = IF broken THEN "done" ELSE "recv"
    /\ UNCHANGED <<muxVars, streamVars, build, req, invoked, flusherOK, model, herr, result, kind, engine,
                   useSSE, cancelled, cancelFirst, upStatus, upBody>>
    /\ UNCHANGED <<srvVars, extVars>>

\* the [DONE] marker after the loop; a failed write is only logged
WriteDone ==
    /\ hpc = "marker"
    /\ \E broken \in WriteOutcomes(connBroken) :
         /\ connBroken' = broken
         /\ w' = WriteBody(w, DoneFrame, broken)
         /\ writeFailed' = (writeFailed \/ broken)
    /\ hpc' = "done"
    /\ UNCHANGED <<muxVars, streamVars, build, req, invoked, flusherOK, model, herr, result, kind, engine,
                   useSSE, cancelled, cancelFirst, upStatus, upBody>>
    /\ UNCHANGED <<srvVars, extVars>>

\* the reader goroutine leaves: close(streamChan); the adaptors' own readers
\* close the body here
ReaderExit ==
    /\ rpc' = "exit"
    /\ chanClosed' = TRUE
    /\ bodyClosed' = (bodyClosed \/ ~ClosesBodyOnReturn(engine))

\* bufio.Scanner fills its buffer from the body: one read may bring several lines
ReaderRead ==
    /\ rpc = "scan"
    /\ pos = rd
    /\ rd < Len(upstream)
    /\ ~bodyClosed
    /\ ~cancelled
    /\ \E n \in (rd + 1)..Len(upstream) : rd' = n
    /\ UNCHANGED <<muxVars, reqVars, upstream, pos, bodyClosed, rpc, chunk, chanClosed, hchunk>>
    /\ UNCHANGED <<srvVars, extVars>>

\* scanner.Scan() returned a line: trim, parse, then skip it, offer its chunk
\* on the channel, or (adaptors' own readers, on the end marker) return
ReaderScanLine ==
    /\ rpc = "scan"
    /\ pos < rd
    /\ pos' = pos + 1
    /\ LET r == LineStep(engine, useSSE, kind, upstream[pos + 1])
       IN  IF r.act = "return"
           THEN ReaderExit /\ chunk' = chunk
           ELSE /\ rpc' = IF r.act = "send" THEN "send" ELSE "scan"
                /\ chunk' = IF r.act = "send" THEN r.chunk ELSE chunk
                /\ UNCHANGED <<bodyClosed, chanClosed>>
    /\ UNCHANGED <<muxVars, reqVars, upstream, rd, hchunk>>
    /\ UNCHANGED <<srvVars, extVars>>

\* scanner.Scan() returned false: end of body, a read on the closed body, or
\* a read aborted by the cancelled context
ReaderScanEnd ==
    /\ rpc = "scan"
    /\ pos = rd
    /\ (rd = Len(upstream) \/ bodyClosed \/ cancelled)
    /\ ReaderExit
    /\ UNCHANGED <<muxVars, reqVars, upstream, rd, pos, chunk, hchunk>>
    /\ UNCHANGED <<srvVars, extVars>>

\* a plain send without the select: cancellation does not wake the reader
ReaderSendNoSelect ==
    /\ rpc = "send"
    /\ cancelled
    /\ UNCHANGED vars

\* the ctx.Done() case of the select around the send
ReaderSendCancelled ==
    /\ rpc = "send"
    /\ cancelled
    /\ ReaderExit
    /\ UNCHANGED <<muxVars, reqVars, upstream, rd, pos, chunk, hchunk>>
    /\ UNCHANGED <<srvVars, extVars>>

\* the request is in progress: the handler or its reader goroutine runs
InProgress == hpc \notin {"idle", "done"} \/ rpc \in {"scan", "send"}

\* the request context is cancelled (caller gone, shutdown, timeout)
Cancel ==
    /\ InProgress
    /\ ~cancelled
    /\ cancelled' = TRUE
    /\ cancelFirst' = (upStatus = 0)
    /\ UNCHANGED <<muxVars, streamVars, build, req, invoked, flusherOK, hpc, model, herr, result, kind,
                   engine, useSSE, connBroken, writeFailed, upStatus, upBody, w>>
    /\ UNCHANGED <<srvVars, extVars>>

Next ==
    \/ HandleDecode
    \/ MuxDispatch
    \/ ProviderDo
    \/ ProviderReadAll
    \/ ReturnStream
    \/ HandleStreamError
    \/ HandleResponse
    \/ SSEHeader
    \/ ChanHandoff
    \/ RecvClosed
    \/ WriteChunk
    \/ WriteDone
    \/ ReaderRead
    \/ ReaderScanLine
    \/ ReaderScanEnd
    \/ ReaderSendCancelled
    \/ Cancel

Spec == Init /\ [][Next]_vars

\* --------------------------------------------------------------------------
\* The server shell: Server.Start, its serving goroutine and Server.Stop on
\* one instance. Start and Stop calls run concurrently, one step at a time.
\* --------------------------------------------------------------------------
StartIds == 1..MaxStarts

StopIds == 1..MaxStops

Variants == {"atomic", "mutex"}

\* what is at the socket path: nothing, a file somebody else left there, or
\* the socket this instance's listener created
Files == {"none", "foreign", "socket"}

\* `if s.listener.Load() != nil`: the pointer is stored once and never reset
AlreadyRunningWhileOpen(s) == s.listener = "open"

AlreadyRunning(s) == s.listener # "nil"

\* os.Stat(s.socketPath) returns no error
StatFindsNothing(file) == FALSE

StatFinds(file) == file # "none"

\* net.Listen: "unix" refuses a path that exists (address already in use);
\* free is whether the operating system grants the address otherwise
Listen(useSocket, file, free) == free /\ ~(useSocket /\ file # "none")

\* the address of the listener net.Listen returns: the socket path, or the
\* TCP address, whose port the operating system chooses when port 0 is asked
ListenAddrs(useSocket) ==
    IF useSocket THEN {"socketPath"} ELSE {"127.0.0.1:49152", "127.0.0.1:49153"}

\* an Addr that answers for an open listener only
AddrWhileOpen(s) ==
    IF s.useSocket THEN "nil"
    ELSE IF s.listener # "open" THEN "nil"
    ELSE s.addr

\* Server.Addr: nil in socket mode and while no listener is stored, else the
\* address of the stored listener, which a closed listener keeps. The call is
\* one atomic load, so a call made in a state returns Addr of that state
Addr(s) ==
    IF s.useSocket THEN "nil"
    ELSE IF s.listener = "nil" THEN "nil"
    ELSE s.addr

\* the error the critical section of Start returns
StartError(s, file, free) ==
    IF AlreadyRunning(s) THEN "AlreadyRunning"
    ELSE IF s.useSocket /\ StatFinds(file) THEN "SocketExists"
    ELSE IF ~Listen(s.useSocket, file, free) THEN "ListenError"
    ELSE "nil"

\* where the critical section goes after the bind attempt: a return with an
\* error skips close(s.started) and close(s.ready)
AfterBindAlwaysSignal(err) == "signal"

AfterBind(err) == IF err = "nil" THEN "signal" ELSE "unlock"

\* close(ch): closing a closed channel panics
CloseChan(s, field) ==
    IF s[field] THEN [s EXCEPT !.panics = @ + 1] ELSE [s EXCEPT ![field] = TRUE]

\* closing a listener made by net.Listen("unix") unlinks its socket file
CloseListener(s, file) ==
    IF s.useSocket /\ s.listener = "open" /\ file = "socket" THEN "none" ELSE file

\* os.Remove(s.socketPath): the error it returns, and the file afterwards
RemoveErr(file) == IF file = "none" THEN "NotExist" ELSE "nil"

Remove(file) == "none"

\* `err != nil && !os.IsNotExist(err)`
RemoveLogsAnyError(err) == err # "nil"

RemoveLogsError(err) == err \notin {"nil", "NotExist"}

\* a send on the channel Start returns: it blocks when the buffer is full
CanSend(ch) == Len(ch) < DoneCap

\* http.Server.Serve returns once the server is shut down or Accept fails on
\* a closed listener
ServeReturnsOnShutdownOnly(s) == s.shutdown

ServeReturns(s) == s.shutdown \/ s.listener = "closed"

ServeResult(s) == IF s.shutdown THEN "ErrServerClosed" ELSE "AcceptError"

ServeResults == {"ErrServerClosed", "AcceptError"}

StartErrors == {"AlreadyRunning", "SocketExists", "ListenError"}

InitServerWith(start0) ==
    /\ \E v \in Variants, sock \in BOOLEAN, file \in {"none", "foreign"} :
          /\ v = "mutex" => sock
          /\ ~sock => file = "none"
          /\ srv = NewServer(v, sock, file)
          /\ sockFile = file
    /\ mtx = 0
    /\ wait = NoWait
    /\ InitProviderIdle
    /\ starts = [i \in StartIds |-> start0]
    /\ stops = [j \in StopIds |-> NoStop]
    /\ providers = <<>>
    /\ query = <<>>
    /\ selected = NoSelection
    /\ catalog = <<>>
    /\ calls = <<>>
    /\ InitRequest(IdleRequest, "writeError", FALSE, "idle")
    /\ InitStream

InitServer == InitServerWith(NoStart)

\* a caller invokes Start: `done := make(chan error, 1)` and
\* s.startMtx.Lock(), which lets the call through when the mutex is free
StartBegin(i) ==
    /\ starts[i].pc = "idle"
    /\ i > 1 => starts[i - 1].pc # "idle"
    /\ mtx = 0
    /\ mtx' = i
    /\ starts' = [starts EXCEPT ![i].pc = "bind",
                                ![i].afterStop =
                                    /\ starts[i].traced
                                    /\ \E j \in StopIds : stops[j].pc = "done" /\ ~stops[j].early]
    /\ UNCHANGED <<muxVars, reqVars, streamVars, extVars, srv, sockFile, stops>>

\* the test for a running server, os.Stat, net.Listen and the store of the
\* listener
StartBind(i) ==
    /\ starts[i].pc = "bind"
    /\ \E free \in BOOLEAN :
          LET err == StartError(srv, sockFile, free) IN
          /\ starts' = [starts EXCEPT ![i].pc = AfterBind(err), ![i].err = err,
                                      ![i].ranAfterBind = srv.binds > 0]
          /\ IF err = "nil"
                THEN /\ \E a \in ListenAddrs(srv.useSocket) :
                            srv' = [srv EXCEPT !.listener = "open", !.binds = @ + 1,
                                               !.addr = a]
                     /\ sockFile' = IF srv.useSocket THEN "socket" ELSE sockFile
                ELSE UNCHANGED <<srv, sockFile>>
    /\ UNCHANGED <<muxVars, reqVars, streamVars, extVars, mtx, stops>>

\* close(s.started); close(s.ready) (the mutex variant has no ready channel)
StartSignal(i) ==
    /\ starts[i].pc = "signal"
    /\ LET s1 == CloseChan(srv, "started")
           s2 == IF srv.variant = "atomic"
                    THEN [CloseChan(s1, "ready") EXCEPT !.readyCloses = @ + 1]
                    ELSE s1
       IN  srv' = s2
    /\ starts' = [starts EXCEPT ![i].pc = "unlock"]
    /\ UNCHANGED <<muxVars, reqVars, streamVars, extVars, sockFile, mtx, stops>>

\* the deferred Unlock, then `if err != nil { done <- err; return done }`
StartUnlock(i) ==
    /\ starts[i].pc = "unlock"
    /\ mtx' = 0
    /\ starts' =
          IF starts[i].err = "nil" THEN [starts EXCEPT ![i].pc = "publish"]
          ELSE IF CanSend(starts[i].done)
             THEN [starts EXCEPT ![i].pc = "returned",
                                 ![i].done = Append(@, starts[i].err)]
             ELSE [starts EXCEPT ![i].pc = "blocked"]
    /\ UNCHANGED <<muxVars, reqVars, streamVars, extVars, srv, sockFile, stops>>

\* mux.NewRouter, s.setupRoutes(router), the http.Server and its publication
StartPublish(i) ==
    /\ starts[i].pc = "publish"
    /\ srv' = [srv EXCEPT !.server = "set"]
    /\ starts' = [starts EXCEPT ![i].pc = "go"]
    /\ UNCHANGED <<muxVars, reqVars, streamVars, extVars, sockFile, mtx, stops>>

\* `go func() { ... }()` and `return done`
StartGo(i) ==
    /\ starts[i].pc = "go"
    /\ starts' = [starts EXCEPT ![i].pc = "returned", ![i].serve = "spawned"]
    /\ UNCHANGED <<muxVars, reqVars, streamVars, extVars, srv, sockFile, mtx, stops>>

\* the goroutine loads the listener and enters server.Serve
ServeBegin(i) ==
    /\ starts[i].serve = "spawned"
    /\ starts' = [starts EXCEPT ![i].serve = "running"]
    /\ UNCHANGED <<muxVars, reqVars, streamVars, extVars, srv, sockFile, mtx, stops>>

\* Serve returns and the goroutine sends its result: `done <- server.Serve(..)`
ServeReturn(i) ==
    /\ starts[i].serve = "running"
    /\ ServeReturns(srv)
    /\ starts' =
          IF CanSend(starts[i].done)
             THEN [starts EXCEPT ![i].serve = "done",
                                 ![i].done = Append(@, ServeResult(srv))]
             ELSE [starts EXCEPT ![i].serve = "blocked"]
    /\ UNCHANGED <<muxVars, reqVars, streamVars, extVars, srv, sockFile, mtx, stops>>

\* a Stop without the select on s.started
StopBeginNoTest(j) ==
    /\ stops[j].pc = "idle"
    /\ j > 1 => stops[j - 1].pc # "idle"
    /\ stops' = [stops EXCEPT ![j].pc = "shutdown"]
    /\ UNCHANGED <<muxVars, reqVars, streamVars, extVars, srv, sockFile, mtx, starts>>

\* a caller invokes Stop: the select on s.started (and, in the mutex variant,
\* the test of s.listener, which is set whenever started is closed).
\* sawReady is whether the caller could observe readiness before the call
StopBegin(j) ==
    /\ stops[j].pc = "idle"
    /\ j > 1 => stops[j - 1].pc # "idle"
    /\ stops' = [stops EXCEPT ![j].pc = IF srv.started THEN "shutdown" ELSE "done",
                              ![j].early = ~srv.started,
                              ![j].sawReady = srv.ready,
                              ![j].sawServer = srv.server # "nil"]
    /\ UNCHANGED <<muxVars, reqVars, streamVars, extVars, srv, sockFile, mtx, starts>>

\* the values a Stop call can read for the server handle. The atomic variant
\* loads the pointer. The mutex variant reads a plain field that Start writes
\* outside the mutex: unless the write was there when the call began, the read
\* races with it and may return the old nil
ServerSeen(s, st) ==
    IF s.variant = "mutex" /\ ~st.sawServer THEN {FALSE, s.server # "nil"}
    ELSE {s.server # "nil"}

\* `if serverPtr != nil { serverPtr.Shutdown(ctx) }`: Shutdown closes the
\* listeners that Serve is tracking
StopShutdown(j) ==
    /\ stops[j].pc = "shutdown"
    /\ \E seen \in ServerSeen(srv, stops[j]) :
          LET tracked == \E i \in StartIds : starts[i].serve = "running" IN
          /\ stops' = [stops EXCEPT ![j].pc = "close", ![j].sawServer = seen]
          /\ IF seen
                THEN /\ srv' = [srv EXCEPT !.shutdown = TRUE,
                                           !.listener = IF tracked THEN "closed" ELSE @]
                     /\ sockFile' = IF tracked THEN CloseListener(srv, sockFile)
                                    ELSE sockFile
                ELSE UNCHANGED <<srv, sockFile>>
    /\ UNCHANGED <<muxVars, reqVars, streamVars, extVars, mtx, starts>>

\* `(*listenerPtr).Close()` (an error, already closed, is logged), then
\* `if s.useSocket { os.Remove(s.socketPath) }`, not-exist errors ignored
StopClose(j) ==
    /\ stops[j].pc = "close"
    /\ srv' = [srv EXCEPT !.listener = "closed"]
    /\ LET closed == CloseListener(srv, sockFile) IN
       IF srv.useSocket
          THEN /\ sockFile' = Remove(closed)
               /\ stops' = [stops EXCEPT ![j].pc = "done",
                                         ![j].removeErr = RemoveErr(closed),
                                         ![j].logged = RemoveLogsError(RemoveErr(closed))]
          ELSE /\ sockFile' = closed
               /\ stops' = [stops EXCEPT ![j].pc = "done"]
    /\ UNCHANGED <<muxVars, reqVars, streamVars, extVars, mtx, starts>>

\* the steps of calls that are under way: the scheduler runs each of them
ServerSteps ==
    \/ \E i \in StartIds :
          \/ StartBind(i)
          \/ StartSignal(i)
          \/ StartUnlock(i)
          \/ StartPublish(i)
          \/ StartGo(i)
          \/ ServeBegin(i)
          \/ ServeReturn(i)
    \/ \E j \in StopIds :
          \/ StopShutdown(j)
          \/ StopClose(j)

NextServer ==
    \/ \E i \in StartIds : StartBegin(i)
    \/ \E j \in StopIds : StopBegin(j)
    \/ ServerSteps

SpecServer == InitServer /\ [][NextServer]_vars

\* a goroutine that can run is eventually run; callers are free never to call
SpecServerFair == SpecServer /\ WF_vars(ServerSteps)

\* the same calls, each Start traced against the Stop calls that returned
InitRestart == InitServerWith(TracedStart)

SpecRestart == InitRestart /\ [][NextServer]_vars

\* --------------------------------------------------------------------------
\* SpecReady: a WaitReady call beside the Start and Stop calls
\* --------------------------------------------------------------------------
\* the cases of WaitReady's select that can proceed: the receive from the
\* closed ready channel and the receive from ctx.Done() once the deadline has
\* elapsed; Go picks any one of those that can proceed
SelectCasesNoDeadline(ready, expired) == {"nil"}

SelectCases(ready, expired) ==
    (IF ready THEN {"nil"} ELSE {}) \cup (IF expired THEN {"timeout"} ELSE {})

\* WaitReady(timeout) of the atomic variant (the mutex variant has none):
\* context.WithTimeout; a timeout that is not positive gives a context that is
\* done at once
WaitBegin ==
    /\ wait.pc = "idle"
    /\ srv.variant = "atomic"
    /\ \E positive \in BOOLEAN :
          wait' = [wait EXCEPT !.pc = "select", !.expired = ~positive,
                               !.readyFirst = ~positive /\ srv.ready]
    /\ UNCHANGED <<muxVars, reqVars, streamVars, srvVars, provVars, resVars, ingVars, pairVars>>

\* the deadline of the context elapses while the call is in its select
WaitDeadline ==
    /\ wait.pc = "select"
    /\ ~wait.expired
    /\ wait' = [wait EXCEPT !.expired = TRUE, !.readyFirst = srv.ready]
    /\ UNCHANGED <<muxVars, reqVars, streamVars, srvVars, provVars, resVars, ingVars, pairVars>>

\* the select proceeds: nil, or the timeout error
WaitReturn ==
    /\ wait.pc = "select"
    /\ \E r \in SelectCases(srv.ready, wait.expired) :
          wait' = [wait EXCEPT !.pc = "done", !.result = r]
    /\ UNCHANGED <<muxVars, reqVars, streamVars, srvVars, provVars, resVars, ingVars, pairVars>>

WaitSteps ==
    \/ WaitBegin
    \/ WaitDeadline
    \/ WaitReturn

NextReady ==
    \/ NextServer
    \/ WaitSteps

SpecReady == InitServer /\ [][NextReady]_vars

\* --------------------------------------------------------------------------
\* SpecProvider: one provider adaptor, from its construction to the requests
\* it sends upstream
\* --------------------------------------------------------------------------
\* os.Getenv: the value of the variable, the empty string when it is not set
Getenv(e, name) == IF name = Str("NAME") /\ e.set THEN e.value ELSE <<>>

\* the api key a constructor stores: a ${...} reference is looked up in the
\* environment, anything else is taken as it is
ResolveKey(apiKey, e) ==
    IF HasPrefix(apiKey, "${") /\ HasSuffix(apiKey, "}")
    THEN Getenv(e, TrimSuffix(TrimPrefix(apiKey, "${"), "}"))
    ELSE apiKey

\* NewOpenAIProvider, NewAnthropicProvider, NewOllamaProvider: none of them
\* returns an error; the Ollama provider has no credential
NewProvider(cfg, e) ==
    [kind   |-> cfg.kind,
     apiKey |-> IF cfg.kind = "ollama" THEN <<>> ELSE ResolveKey(cfg.apiKey, e),
     models |-> cfg.models]

ProviderConfigs ==
    {[kind |-> k, apiKey |-> a, models |-> <<Str("a")>>] :
        k \in {"openai", "anthropic"}, a \in {LiteralKey, ReferenceKey}}
    \cup {IdleConfig}

\* the credential of a request, read by the request from the provider's field
KeyAtRequestFromEnv(p, cfg, e) == ResolveKey(cfg.apiKey, e)

KeyAtRequest(p, cfg, e) == p.apiKey

\* the header that carries the credential
AuthHeader(p, key) ==
    IF p.kind = "openai" THEN [name |-> "Authorization", value |-> <<"Bearer ">> \o key]
    ELSE IF p.kind = "anthropic" THEN [name |-> "x-api-key", value |-> key]
    ELSE [name |-> "", value |-> <<>>]

\* a chat message: map[string]interface{}; NotAString stands for a field
\* that is missing or holds a value of another type
NotAString == <<"<not a string>">>

Roles == {Str("system"), Str("user"), Str("assistant")}

Contents == {<<>>, Str("x"), Str("y")}

Messages == [role : Roles, content : Contents]

\* the loop of the Anthropic adaptor over the messages: a system message
\* assigns its content to systemMessage, any other one is appended
RECURSIVE splitMessages(_, _, _)
splitMessages(msgs, acc, sys) ==
    IF msgs = <<>> THEN [messages |-> acc, systemMessage |-> sys]
    ELSE IF msgs[1].role = Str("system")
         THEN splitMessages(Tail(msgs), acc, msgs[1].content)
         ELSE splitMessages(Tail(msgs), Append(acc, msgs[1]), sys)

\* msg["role"].(string) and msg["content"].(string) panic on such a field
AssertionPanics(msgs) ==
    \E i \in 1..Len(msgs) : msgs[i].role = NotAString \/ msgs[i].content = NotAString

\* json.Marshal of the slice: ChatCompletion starts from make(..., 0), which
\* is [] when empty; ChatCompletionStream from a nil slice, which is null
MarshalSlice(items, stream) ==
    [null |-> stream /\ items = <<>>, items |-> items]

\* the payload of AnthropicProvider.ChatCompletion and ChatCompletionStream
AnthropicPayload(msgs, stream) ==
    LET split == splitMessages(msgs, <<>>, <<>>)
    IN  [messages  |-> MarshalSlice(split.messages, stream),
         hasSystem |-> split.systemMessage # <<>>,
         system    |-> split.systemMessage,
         stream    |-> stream]

\* OpenAI and Ollama adaptors send the messages as they received them
PassThroughPayload(msgs, stream) ==
    [messages  |-> [null |-> FALSE, items |-> msgs],
     hasSystem |-> FALSE,
     system    |-> <<>>,
     stream    |-> stream]

\* ChatCompletion / ChatCompletionStream up to the upstream request
ChatRequest(p, cfg, e, msgs, stream) ==
    IF p.kind = "anthropic" /\ AssertionPanics(msgs)
    THEN [op |-> "panic", input |-> msgs]
    ELSE [op      |-> "chat",
          input   |-> msgs,
          auth    |-> AuthHeader(p, KeyAtRequest(p, cfg, e)),
          payload |-> IF p.kind = "anthropic" THEN AnthropicPayload(msgs, stream)
                      ELSE PassThroughPayload(msgs, stream)]

\* what the upstream answers to GET /api/tags: no answer (transport error),
\* or a status and a body; reading the body may fail on the way
GarbageBody == [decodes |-> FALSE, models |-> <<>>]

ListAnswers ==
    {[reached |-> FALSE, status |-> 0, readFails |-> FALSE, body |-> GarbageBody]}
    \cup [reached : {TRUE}, status : {StatusOK, 404, StatusInternalServerError},
          readFails : BOOLEAN,
          body : {GarbageBody} \cup [decodes : {TRUE}, models : ModelLists]]

GetFailsOnBodyOnly(a) == ~a.reached \/ a.readFails \/ ~a.body.decodes

\* makeGetRequest returns an error: Do fails, io.ReadAll fails, the status is
\* not 200, or json.Unmarshal fails
GetFails(a) ==
    ~a.reached \/ a.readFails \/ a.status # StatusOK \/ ~a.body.decodes

\* OllamaProvider.ListModels of the version that asks the upstream; the other
\* adaptors return the declared list
ListModelsOf(p, a) ==
    IF p.kind # "ollama" THEN [op |-> "list", asked |-> FALSE, answer |-> a,
                               models |-> p.models, logs |-> 0]
    ELSE IF GetFails(a) THEN [op |-> "list", asked |-> TRUE, answer |-> a,
                              models |-> <<>>, logs |-> 1]
    ELSE [op |-> "list", asked |-> TRUE, answer |-> a,
          models |-> a.body.models, logs |-> 0]

InitProvider ==
    /\ env \in EnvValues
    /\ pcfg \in ProviderConfigs
    /\ prov = NoProvider
    /\ out = NoOut
    /\ tags = <<>>
    /\ reqMessages = <<>>
    /\ pair = <<>>
    /\ wait = NoWait
    /\ srv = NewServer("atomic", FALSE, "none")
    /\ sockFile = "none"
    /\ mtx = 0
    /\ starts = <<>>
    /\ stops = <<>>
    /\ providers = <<>>
    /\ query = <<>>
    /\ selected = NoSelection
    /\ catalog = <<>>
    /\ calls = <<>>
    /\ InitRequest(IdleRequest, "writeError", FALSE, "idle")
    /\ InitStream

provOthers == <<muxVars, reqVars, streamVars, srvVars, waitVars, resVars, ingVars, pairVars>>

\* the environment changes: os.Setenv, os.Unsetenv
Setenv ==
    /\ \E e \in EnvValues : e # env /\ env' = e
    /\ UNCHANGED <<pcfg, prov, out, provOthers>>

\* the constructor of the configured kind runs
Construct ==
    /\ prov = NoProvider
    /\ prov' = NewProvider(pcfg, env)
    /\ UNCHANGED <<env, pcfg, out, provOthers>>

\* a chat operation of the provider, up to the request it sends; a behaviour
\* follows the provider up to one operation, made at any time after the
\* construction
ChatCompletionCall ==
    /\ prov # NoProvider
    /\ out = NoOut
    /\ \E msgs \in SeqsUpTo(Messages, MaxMsgs), stream \in BOOLEAN :
          out' = ChatRequest(prov, pcfg, env, msgs, stream)
    /\ UNCHANGED <<env, pcfg, prov, provOthers>>

\* ListModels of the provider
ListModelsCall ==
    /\ prov # NoProvider
    /\ out = NoOut
    /\ \E a \in ListAnswers : out' = ListModelsOf(prov, a)
    /\ UNCHANGED <<env, pcfg, prov, provOthers>>

NextProvider ==
    \/ Setenv
    \/ Construct
    \/ ChatCompletionCall
    \/ ListModelsCall

SpecProvider == InitProvider /\ [][NextProvider]_vars

\* --------------------------------------------------------------------------
\* SpecResolve: resolutions of one model id by the multiplexer while the
\* upstreams of its providers change what they answer to a model listing
\* --------------------------------------------------------------------------
\* two Ollama providers, whose ListModels asks the upstream
ResolveConfig(ms, pr) ==
    [i \in 1..2 |-> Provider(ProviderNames[i], "ollama", ms[i], pr[i])]

\* answers of an upstream to GET /api/tags: none, or 200 with a list
TagAnswers ==
    {[reached |-> FALSE, status |-> 0, readFails |-> FALSE, body |-> GarbageBody]}
    \cup {[reached |-> TRUE, status |-> StatusOK, readFails |-> FALSE,
           body |-> [decodes |-> TRUE, models |-> <<m>>]] : m \in ModelIds}

\* the providers as a multiplexer would see them if it asked each one for its
\* models through ListModels()
ListedProviders(ps) ==
    [i \in 1..Len(ps) |-> [ps[i] EXCEPT !.models = ListModelsOf(ps[i], tags[i]).models]]

ResolutionByListing(ps, m) == Delegate(ListedProviders(ps), m)

\* the multiplexer's resolution: over the lists the configuration declares
Resolution(ps, m) == Delegate(ps, m)

InitResolve ==
    /\ \E ms \in [1..2 -> ModelLists], pr \in [1..2 -> 1..MaxPriority] :
          providers = ResolveConfig(ms, pr)
    /\ query \in Queries
    /\ tags \in [1..2 -> TagAnswers]
    /\ selected = NoSelection
    /\ catalog = [done |-> FALSE, object |-> "", data |-> <<>>]
    /\ calls = <<>>
    /\ InitRequest(IdleRequest, "writeError", FALSE, "idle")
    /\ InitStream
    /\ wait = NoWait
    /\ env = EnvUnset
    /\ pcfg = IdleConfig
    /\ prov = NoProvider
    /\ out = NoOut
    /\ reqMessages = <<>>
    /\ pair = <<>>
    /\ srv = NewServer("atomic", FALSE, "none")
    /\ sockFile = "none"
    /\ mtx = 0
    /\ starts = <<>>
    /\ stops = <<>>

resOthers == <<catalog, calls, reqVars, streamVars, srvVars, waitVars, ingVars, pairVars>>

\* the upstream of provider i starts to answer differently
UpstreamChanges ==
    /\ \E i \in 1..2, a \in TagAnswers :
          /\ a # tags[i]
          /\ tags' = [tags EXCEPT ![i] = a]
    /\ UNCHANGED <<providers, query, selected, provVars, resOthers>>

\* the multiplexer resolves the model id
Resolve ==
    /\ selected' = Resolution(providers, query)
    /\ UNCHANGED <<providers, query, tags, provVars, resOthers>>

\* ListModels of provider i, with what its upstream answers now
ProviderListModels ==
    /\ \E i \in 1..2 : out' = ListModelsOf(providers[i], tags[i])
    /\ UNCHANGED <<providers, query, selected, tags, env, pcfg, prov, resOthers>>

NextResolve ==
    \/ UpstreamChanges
    \/ Resolve
    \/ ProviderListModels

SpecResolve == InitResolve /\ [][NextResolve]_vars

\* --------------------------------------------------------------------------
\* SpecIngress: one chat request from the handler to the upstream request of
\* the selected adaptor, with the messages the body decodes to
\* --------------------------------------------------------------------------
\* Messages []map[string]interface{}: any JSON object decodes as a message,
\* whatever its "role" and "content" hold
IngressMessages ==
    [role : {Str("user"), Str("system"), NotAString}, content : {Str("x"), NotAString}]

Malformed(ms) == AssertionPanics(ms)

InitIngress ==
    /\ providers = ServedProviders
    /\ query = <<>>
    /\ selected = NoSelection
    /\ catalog = [done |-> FALSE, object |-> "", data |-> <<>>]
    /\ calls = <<>>
    /\ \E r \in Requests, b \in Builds :
          /\ r.endpoint = "/chat/completions"
          /\ InitRequest(r, b, FALSE, "start")
    /\ InitStream
    /\ reqMessages \in SeqsUpTo(IngressMessages, MaxMsgs)
    /\ pair = <<>>
    /\ wait = NoWait
    /\ env = EnvUnset
    /\ pcfg = IdleConfig
    /\ prov = NoProvider
    /\ out = NoOut
    /\ tags = <<>>
    /\ srv = NewServer("atomic", FALSE, "none")
    /\ sockFile = "none"
    /\ mtx = 0
    /\ starts = <<>>
    /\ stops = <<>>

\* the selected adaptor's ChatCompletion / ChatCompletionStream with the
\* request's messages, up to the request it sends; the failing type assertion
\* of the Anthropic adaptor panics in the handler's goroutine
ProviderSend ==
    /\ hpc = "do"
    /\ LET p == [kind |-> kind, apiKey |-> LiteralKey,
                 models |-> providers[selected.idx].models]
           o == ChatRequest(p, pcfg, env, reqMessages, StreamOf(req))
       IN  /\ out' = o
           /\ hpc' = IF o.op = "panic" THEN "panic" ELSE "sent"
    /\ UNCHANGED <<muxVars, streamVars, build, req, invoked, flusherOK, model, herr, result,
                   kind, engine, useSSE, cancelled, cancelFirst, connBroken, writeFailed,
                   upStatus, upBody, w>>
    /\ UNCHANGED <<srvVars, waitVars, env, pcfg, prov, resVars, ingVars, pairVars>>

NextIngress ==
    \/ HandleDecode
    \/ MuxDispatch
    \/ ProviderSend

SpecIngress == InitIngress /\ [][NextIngress]_vars

\* --------------------------------------------------------------------------
\* SpecRoutes: requests to the router of a serving Server
\* --------------------------------------------------------------------------
\* a path is the sequence of its segments: /v1/models is <<"v1", "models">>
Route(path, method, handler) == [path |-> path, method |-> method, handler |-> handler]

ProxyRoutes(prefix) ==
    << Route(prefix \o <<"chat", "completions">>, "POST", "HandleChatCompletions"),
       Route(prefix \o <<"completions">>, "POST", "HandleCompletions"),
       Route(prefix \o <<"models">>, "GET", "HandleModels") >>

MCPRoutes ==
    << Route(<<"mcp", "v1", "tools">>, "GET", "handleMCPTools"),
       Route(<<"mcp", "v1", "tools", "{tool}", "call">>, "POST", "handleMCPToolCall") >>

InternalRoutes ==
    << Route(<<"_internal", "status">>, "GET", "handleInternalStatus"),
       Route(<<"_internal", "config">>, "GET", "handleInternalConfig"),
       Route(<<"_internal", "metrics">>, "GET", "handleInternalMetrics") >>

HealthRoute == << Route(<<"health">>, "GET", "handleHealth") >>

InternalMountedAlways(s) == TRUE

\* `if !s.useSocket`: the /_internal subrouter exists on a TCP server only
InternalMounted(s) == ~s.useSocket

\* setupRoutes: the routes in the order they are registered; the mutex
\* variant, which serves a socket only, mounts /v1 and /health
setupRoutes(s) ==
    IF s.variant = "mutex" THEN ProxyRoutes(<<"v1">>) \o HealthRoute
    ELSE ProxyRoutes(<<"models", "v1">>)
         \o MCPRoutes
         \o (IF InternalMounted(s) THEN InternalRoutes ELSE <<>>)
         \o HealthRoute
         \o ProxyRoutes(<<"v1">>)

\* a template segment {name} matches any segment, another one itself
SegmentMatches(seg, tmpl) == IF tmpl = "{tool}" THEN seg # "" ELSE seg = tmpl

PathMatches(path, tmpl) ==
    /\ Len(path) = Len(tmpl)
    /\ \A i \in 1..Len(path) : SegmentMatches(path[i], tmpl[i])

\* the router: the first route whose path and method match; a path that only
\* routes of another method match is 405, a path no route matches is 404
ServeHTTP(s, method, path) ==
    LET rs      == setupRoutes(s)
        byPath  == {i \in 1..Len(rs) : PathMatches(path, rs[i].path)}
        matches == {i \in byPath : rs[i].method = method}
    IN  IF matches # {} THEN rs[CHOOSE i \in matches : \A j \in matches : i <= j].handler
        ELSE IF byPath # {} THEN "MethodNotAllowed"
        ELSE "NotFound"

\* statuses a handler answers with
HandlerStatuses(h) ==
    IF h = "NotFound" THEN {404}
    ELSE IF h = "MethodNotAllowed" THEN {405}
    ELSE IF h \in {"HandleChatCompletions", "HandleCompletions"}
         THEN {StatusOK, StatusBadRequest, StatusInternalServerError}
    ELSE {StatusOK}

RequestPaths ==
    { <<>>, <<"health">>, <<"health", "x">>, <<"unknown">>,
      <<"v1">>, <<"v1", "chat", "completions">>, <<"v1", "completions">>, <<"v1", "models">>,
      <<"models", "v1">>, <<"models", "v1", "chat", "completions">>,
      <<"models", "v1", "completions">>, <<"models", "v1", "models">>,
      <<"mcp", "v1", "tools">>, <<"mcp", "v1", "tools", "t", "call">>,
      <<"_internal">>, <<"_internal", "status">>, <<"_internal", "config">>,
      <<"_internal", "metrics">>, <<"_internal", "other">> }

RequestMethods == {"GET", "POST"}

\* a Server after a successful Start, as StartBind, StartSignal and
\* StartPublish leave it
Serving(s) ==
    [s EXCEPT !.listener = "open", !.binds = 1, !.started = TRUE,
              !.ready = (s.variant = "atomic"),
              !.readyCloses = IF s.variant = "atomic" THEN 1 ELSE 0,
              !.server = "set",
              !.addr = IF s.useSocket THEN "socketPath" ELSE "127.0.0.1:49152"]

InitRoutes ==
    /\ \E v \in Variants, sock \in BOOLEAN :
          /\ v = "mutex" => sock
          /\ srv = Serving(NewServer(v, sock, "none"))
          /\ sockFile = IF sock THEN "socket" ELSE "none"
    /\ mtx = 0
    /\ starts = <<>>
    /\ stops = <<>>
    /\ wait = NoWait
    /\ InitProviderIdle
    /\ providers = <<>>
    /\ query = <<>>
    /\ selected = NoSelection
    /\ catalog = <<>>
    /\ calls = <<>>
    /\ InitRequest(IdleRequest, "writeError", FALSE, "idle")
    /\ InitStream

\* a client sends a request to the listener; the router answers
HTTPRequest ==
    /\ srv.listener = "open" /\ srv.server = "set"
    /\ \E method \in RequestMethods, path \in RequestPaths :
          LET h == ServeHTTP(srv, method, path)
          IN  \E st \in HandlerStatuses(h) :
                 out' = [op |-> "http", method |-> method, path |-> path,
                         handler |-> h, status |-> st]
    /\ UNCHANGED <<muxVars, reqVars, streamVars, srvVars, waitVars, env, pcfg, prov,
                   resVars, ingVars, pairVars>>

NextRoutes == HTTPRequest

SpecRoutes == InitRoutes /\ [][NextRoutes]_vars

\* --------------------------------------------------------------------------
\* SpecEngine: the reader of an SSE body and the handler that forwards its
\* chunks, from the upstream's 200 on, over bodies that hold end markers
\* --------------------------------------------------------------------------
\* SSE lines: a chunk, the end marker, and the end marker with white space
\* before or after the token
MarkerLines ==
    { <<DataPrefix, DoneToken>>,
      <<DataPrefix, " ", DoneToken>>,
      <<DataPrefix, DoneToken, " ">> }

EngineLines == {<<DataPrefix, J1>>} \cup MarkerLines

\* the readers of an SSE body: the OpenAI and the Anthropic adaptor's own
\* loop, and makeStreamingRequest of the shared engine with UseSSE: true and
\* no transformer
EngineConfigs ==
    { [engine |-> "inline", kind |-> "openai", model |-> Str("gpt-4")],
      [engine |-> "inline", kind |-> "anthropic", model |-> Str("claude-3-sonnet")],
      [engine |-> "shared", kind |-> "openai", model |-> Str("gpt-4")] }

\* the state in which client.Do of a streaming chat request returned 200 and
\* the reader goroutine was started
InitEngineOver(bodies, builds) ==
    /\ providers = ServedProviders
    /\ catalog = [done |-> FALSE, object |-> "", data |-> <<>>]
    /\ \E c \in EngineConfigs, b \in builds :
          LET sel == Delegate(ServedProviders, c.model)
          IN  /\ build = b
              /\ req = [valid |-> TRUE, endpoint |-> "/chat/completions",
                        model |-> c.model, stream |-> "true"]
              /\ model = c.model
              /\ query = c.model
              /\ selected = sel
              /\ calls = <<Call(ServedProviders, sel, "ChatCompletionStream", c.model)>>
              /\ kind = c.kind
              /\ engine = c.engine
    /\ invoked = <<"ChatCompletionStream">>
    /\ useSSE = TRUE
    /\ flusherOK = FALSE
    /\ hpc = "ret"
    /\ herr = "nil"
    /\ result = NoValue
    /\ cancelled = FALSE
    /\ cancelFirst = FALSE
    /\ connBroken = FALSE
    /\ writeFailed = FALSE
    /\ upStatus = StatusOK
    /\ upBody = <<>>
    /\ w = NewWriter
    /\ upstream \in bodies
    /\ rd = 0
    /\ pos = 0
    /\ bodyClosed = FALSE
    /\ rpc = "scan"
    /\ chunk = NoValue
    /\ chanClosed = FALSE
    /\ hchunk = NoValue
    /\ InitServerIdle

InitEngine == InitEngineOver(SeqsUpTo(EngineLines, MaxLines), Builds)

NextEngine ==
    \/ ReturnStream
    \/ SSEHeader
    \/ ChanHandoff
    \/ RecvClosed
    \/ WriteChunk
    \/ WriteDone
    \/ ReaderRead
    \/ ReaderScanLine
    \/ ReaderScanEnd
    \/ ReaderSendCancelled
    \/ Cancel

SpecEngine == InitEngine /\ [][NextEngine]_vars

\* the steps the reader goroutine can take by itself: the scheduler runs a
\* goroutine that can run, and a select with a case that can proceed proceeds.
\* The upstream is free to stall (ReaderRead), the handler and the caller to stop.
ReaderSteps ==
    \/ ReaderScanLine
    \/ ReaderScanEnd
    \/ ReaderSendCancelled

\* a body of n chunk lines
ChunksOf(n) == [i \in 1..n |-> <<DataPrefix, J1>>]

\* bodies of chunk lines, ended by the end marker or by the end of the body
CancelBodies ==
    {ChunksOf(n) : n \in 0..MaxLines}
        \cup {Append(ChunksOf(n), <<DataPrefix, DoneToken>>) : n \in 0..(MaxLines - 1)}

InitEngineFair == InitEngineOver(CancelBodies, {"writeError"})

SpecEngineFair == InitEngineFair /\ [][NextEngine]_vars /\ WF_vars(ReaderSteps)

\* --------------------------------------------------------------------------
\* SpecPair: two streaming requests served by the same adaptor at the same
\* time, each from its 200 on: its own body, reader goroutine, channel,
\* handler and response writer
\* --------------------------------------------------------------------------
ReqIds == 1..2

\* lines of the two bodies, in the framing of the adaptor
PairLines(sse) ==
    IF sse THEN {<<DataPrefix, J1>>, <<DataPrefix, J2ws>>} ELSE {<<J1>>, <<J2ws>>}

\* kinds of the adaptor both requests are served by: one with its own reader,
\* one on the shared engine
PairKinds == {"openai", "ollama"}

\* an adaptor with one channel for all its requests
ChanOfAdaptor(r) == 1

\* the channel of request r: makeStreamingRequest makes one in every call
ChanOf(r) == r

\* a request after makeStreamingRequest returned its channel and
\* writeSSEResponse wrote the headers: the reader scans, the handler receives
NewStream(body) ==
    [upstream |-> body, pos |-> 0, rpc |-> "scan", chunk |-> NoValue, chanClosed |-> FALSE,
     hpc |-> "recv", hchunk |-> NoValue,
     w |-> WriteHeader(SetContentType(NewWriter, "text/event-stream"), StatusOK)]

InitPair ==
    /\ providers = ServedProviders
    /\ query = <<>>
    /\ selected = NoSelection
    /\ catalog = [done |-> FALSE, object |-> "", data |-> <<>>]
    /\ calls = <<>>
    /\ InitRequest(IdleRequest, "writeError", TRUE, "idle")
    /\ InitStream
    /\ wait = NoWait
    /\ env = EnvUnset /\ pcfg = IdleConfig /\ prov = NoProvider /\ out = NoOut
    /\ tags = <<>>
    /\ reqMessages = <<>>
    /\ srv = NewServer("atomic", FALSE, "none")
    /\ sockFile = "none"
    /\ mtx = 0
    /\ starts = <<>>
    /\ stops = <<>>
    /\ \E k \in PairKinds :
          \E b \in [ReqIds -> SeqsUpTo(PairLines(UseSSEOf(k)), MaxPairLines)] :
             pair = [r \in ReqIds |->
                        NewStream(b[r]) @@ [kind |-> k, engine |-> EngineOf(k),
                                            useSSE |-> UseSSEOf(k)]]

pairOthers == <<muxVars, reqVars, streamVars, srvVars, waitVars, provVars, resVars, ingVars>>

\* close(streamChan) was called on the channel request r receives from
ChanClosed(r) == \E q \in ReqIds : ChanOf(q) = ChanOf(r) /\ pair[q].chanClosed

\* scanner.Scan() of the reader of request r returned a line
PairScanLine(r) ==
    LET p == pair[r]
        l == LineStep(p.engine, p.useSSE, p.kind, p.upstream[p.pos + 1])
    IN  /\ p.rpc = "scan"
        /\ p.pos < Len(p.upstream)
        /\ pair' = [pair EXCEPT ![r] =
                      [p EXCEPT !.pos = p.pos + 1,
                                !.rpc = IF l.act = "return" THEN "exit"
                                        ELSE IF l.act = "send" THEN "send" ELSE "scan",
                                !.chunk = IF l.act = "send" THEN l.chunk ELSE p.chunk,
                                !.chanClosed = (l.act = "return")]]
        /\ UNCHANGED pairOthers

\* scanner.Scan() returned false: the end of the body or, on the shared
\* engine, a read of the body that the deferred close has closed
PairScanEnd(r) ==
    LET p == pair[r]
    IN  /\ p.rpc = "scan"
        /\ p.pos = Len(p.upstream) \/ ClosesBodyOnReturn(p.engine)
        /\ pair' = [pair EXCEPT ![r] = [p EXCEPT !.rpc = "exit", !.chanClosed = TRUE]]
        /\ UNCHANGED pairOthers

\* the handler of request r receives from its channel what a reader sends on it
PairHandoff(r) ==
    /\ pair[r].hpc = "recv"
    /\ \E q \in ReqIds :
          /\ ChanOf(q) = ChanOf(r)
          /\ pair[q].rpc = "send"
          /\ pair' = [x \in ReqIds |->
                         LET a == IF x = q THEN [pair[x] EXCEPT !.rpc = "scan"] ELSE pair[x]
                         IN  IF x = r THEN [a EXCEPT !.hpc = "write", !.hchunk = pair[q].chunk]
                             ELSE a]
    /\ UNCHANGED pairOthers

\* the range loop of the handler of request r on its closed channel
PairRecvClosed(r) ==
    /\ pair[r].hpc = "recv"
    /\ ChanClosed(r)
    /\ pair' = [pair EXCEPT ![r].hpc = AfterStreamEnd]
    /\ UNCHANGED pairOthers

\* the loop body of the handler of request r: the frame is written to its
\* own response writer; a failed write returns
PairWriteChunk(r) ==
    /\ pair[r].hpc = "write"
    /\ \E broken \in WriteOutcomes(FALSE) :
          pair' = [pair EXCEPT ![r].w = WriteBody(@, ChunkFrame(pair[r].hchunk), broken),
                               ![r].hpc = IF broken THEN "done" ELSE "recv"]
    /\ UNCHANGED pairOthers

\* the [DONE] marker of request r
PairWriteDone(r) ==
    /\ pair[r].hpc = "marker"
    /\ \E broken \in WriteOutcomes(FALSE) :
          pair' = [pair EXCEPT ![r].w = WriteBody(@, DoneFrame, broken),
                               ![r].hpc = "done"]
    /\ UNCHANGED pairOthers

NextPair ==
    \E r \in ReqIds :
        \/ PairScanLine(r)
        \/ PairScanEnd(r)
        \/ PairHandoff(r)
        \/ PairRecvClosed(r)
        \/ PairWriteChunk(r)
        \/ PairWriteDone(r)

SpecPair == InitPair /\ [][NextPair]_vars

\* --------------------------------------------------------------------------
\* Claims about the multiplexer (checked under SpecMux)
\* --------------------------------------------------------------------------
Declaring(ps, m) == {i \in 1..Len(ps) : Contains(ps[i].models, m)}

\* C3: the resolution of a model id is the provider of lowest priority number
\* among those declaring it, the earliest in configuration order among equals,
\* and exactly that provider's operation is invoked; when no provider declares
\* the id the operation fails with NoProviderForModel and nothing is invoked.
C3_SelectsMostUrgentDeclaring ==
    selected.done =>
        LET D == Declaring(providers, query)
            s == selected.idx
        IN  IF D = {}
            THEN s = 0 /\ selected.err = "NoProviderForModel" /\ calls = <<>>
            ELSE /\ selected.err = "nil"
                 /\ s \in D
                 /\ \A j \in D : providers[s].priority <= providers[j].priority
                 /\ \A j \in D : providers[j].priority = providers[s].priority => s <= j
                 /\ Len(calls) = 1
                 /\ calls[1].provider = providers[s].name
                 /\ calls[1].model = query

\* a resolution where the later provider wins on priority and one where the
\* earlier provider wins a tie are both reached through states like this one
C3_Witness ==
    /\ selected.done
    /\ Len(providers) = 2
    /\ Declaring(providers, query) = {1, 2}
    /\ providers[2].priority < providers[1].priority
    /\ selected.idx = 2
    /\ Len(calls) = 1

\* position of the first declaration of m when the providers' lists are read
\* in configuration order
RECURSIVE Flatten(_, _)
Flatten(ps, i) == IF i > Len(ps) THEN <<>> ELSE ps[i].models \o Flatten(ps, i + 1)

FirstPos(flat, m) == CHOOSE k \in 1..Len(flat) : flat[k] = m /\ \A l \in 1..(k - 1) : flat[l] # m

\* C4: in the catalog every declared id appears exactly once, in first-seen
\* order over the providers in configuration order, and owned_by is the name
\* of the first provider in configuration order that declares the id.
C4_CatalogOwnedByFirstDeclaring ==
    catalog.done =>
        LET d    == catalog.data
            flat == Flatten(providers, 1)
        IN  /\ \A i, j \in 1..Len(d) : i # j => d[i].id # d[j].id
            /\ {d[i].id : i \in 1..Len(d)} = {flat[k] : k \in 1..Len(flat)}
            /\ \A i, j \in 1..Len(d) : i < j => FirstPos(flat, d[i].id) < FirstPos(flat, d[j].id)
            /\ \A i \in 1..Len(d) : d[i].owned_by = OwnerFirstDeclaring(providers, d[i].id)

\* C5: owned_by of a catalog entry is the name of the provider the multiplexer
\* selects for that id.
C5_OwnerIsSelectedProvider ==
    (catalog.done /\ selected.done /\ selected.idx # 0) =>
        \A i \in 1..Len(catalog.data) :
            catalog.data[i].id = query =>
                catalog.data[i].owned_by = providers[selected.idx].name

WithoutEmpty(ps) == SelectSeq(ps, LAMBDA p : p.models # <<>>)

\* C6: a provider with an empty declared list is never selected, no operation
\* of it is invoked, and the catalog is the one of the configuration without
\* that provider.
C6_EmptyProviderNeverSelected ==
    /\ selected.done /\ selected.idx # 0 => providers[selected.idx].models # <<>>
    /\ \A c \in 1..Len(calls) :
          \A i \in 1..Len(providers) :
              providers[i].name = calls[c].provider => providers[i].models # <<>>
    /\ catalog.done =>
          /\ catalog.data = HandleModels(WithoutEmpty(providers)).data
          /\ \A e \in 1..Len(catalog.data) :
                \E i \in 1..Len(providers) :
                    providers[i].models # <<>> /\ Contains(providers[i].models, catalog.data[e].id)

C6_Witness ==
    /\ selected.done
    /\ catalog.done
    /\ Len(providers) = 2
    /\ providers[1].models = <<>>
    /\ providers[1].priority < providers[2].priority
    /\ selected.idx = 2
    /\ Len(catalog.data) = 2

\* --------------------------------------------------------------------------
\* Claims about one request (checked under Spec)
\* --------------------------------------------------------------------------
IsSSEFrame(f) == Len(f) >= 1 /\ f[1] = DataPrefix

NoSSEFrames == \A i \in 1..Len(w.body) : ~IsSSEFrame(w.body[i])

DoneCount == Cardinality({i \in 1..Len(w.body) : w.body[i] = DoneFrame})

SSEResponse == StreamOf(req) /\ w.status = StatusOK /\ w.ctype = "text/event-stream"

Is2xx(st) == st \in 200..299

ErrorBodies == {ErrorEnvelope("Internal server error"), <<"Internal server error", "\n">>}

\* the frames of the chunks the reader makes of the lines of a body, in order,
\* up to the point where it returns
RECURSIVE ExpectedChunks(_, _, _, _)
ExpectedChunks(lines, eng, sse, k) ==
    IF lines = <<>> THEN <<>>
    ELSE LET r == LineStep(eng, sse, k, Head(lines))
         IN  IF r.act = "return" THEN <<>>
             ELSE IF r.act = "send"
                  THEN <<ChunkFrame(r.chunk)>> \o ExpectedChunks(Tail(lines), eng, sse, k)
                  ELSE ExpectedChunks(Tail(lines), eng, sse, k)

\* C1: a streaming request whose upstream answered 200, not cancelled and
\* written to a flushing writer without a failed write, gives the caller one
\* frame per upstream line that parses and is kept, in upstream order, and
\* then one data: [DONE] frame.
C1_FramesAreUpstreamChunksThenDone ==
    (hpc = "done" /\ StreamOf(req) /\ upStatus = StatusOK
        /\ ~cancelled /\ ~writeFailed /\ flusherOK) =>
        w.body = ExpectedChunks(upstream, engine, useSSE, kind) \o <<DoneFrame>>

C7_Non2xxGivesOne500 ==
    (upStatus # 0 /\ ~Is2xx(upStatus)) =>
        /\ w.headerCalls <= 1
        /\ w.status \in {0, StatusInternalServerError}
        /\ w.ctype # "text/event-stream"
        /\ Len(w.body) <= 1
        /\ \A i \in 1..Len(w.body) : w.body[i] \in ErrorBodies
        /\ hpc = "done" => (w.headerCalls = 1 /\ w.status = StatusInternalServerError)

C7_Witness ==
    /\ hpc = "done"
    /\ upStatus = 404
    /\ StreamOf(req)
    /\ herr = "UpstreamError"
    /\ w.status = StatusInternalServerError
    /\ Len(w.body) = 1

\* the adaptor's call has returned to the handler
Returned == hpc \in {"back", "recv", "write", "marker", "done"} /\ selected.done /\ selected.idx # 0

C9_CancelledEarlyNever200 ==
    cancelFirst =>
        /\ w.status # StatusOK
        /\ w.ctype # "text/event-stream"
        /\ NoSSEFrames

C9_Witness ==
    /\ cancelFirst
    /\ hpc = "done"
    /\ req.valid
    /\ StreamOf(req)
    /\ selected.idx # 0
    /\ herr = "TransportError"
    /\ w.status = StatusInternalServerError

\* C10: a streaming operation that failed during setup is answered with 500:
\* no SSE header, no chunk frame, no data: [DONE].
C10_StreamSetupFailureGives500 ==
    (StreamOf(req) /\ herr # "nil") =>
        /\ w.status \in {0, StatusInternalServerError}
        /\ w.ctype # "text/event-stream"
        /\ NoSSEFrames
        /\ hpc = "done" => (w.status = StatusInternalServerError /\ w.headerCalls = 1)

C10_Witness ==
    /\ hpc = "done"
    /\ StreamOf(req)
    /\ herr = "NoProviderForModel"
    /\ calls = <<>>
    /\ w.status = StatusInternalServerError
    /\ Len(w.body) = 1

\* C11: a body that is not valid JSON is answered 400 with the error envelope
\* {error: {message, type: "invalid_request_error"}} and no multiplexer
\* operation is invoked.
C11_InvalidJSONGives400Envelope ==
    (hpc = "done" /\ ~req.valid /\ ~connBroken) =>
        /\ w.status = StatusBadRequest
        /\ w.headerCalls = 1
        /\ w.ctype = "application/json"
        /\ w.body = <<ErrorEnvelope("Invalid JSON")>>
        /\ invoked = <<>>
        /\ calls = <<>>

\* C12: the model id given to the multiplexer is the request's model with one
\* leading "modelplex-" removed when present, unchanged otherwise; the prefix
\* is removed at most once and the bare prefix gives the empty id.
C12_ModelIdPrefixRemovedOnce ==
    (req.valid /\ hpc # "start") =>
        /\ IF HasPrefix(req.model, ModelPrefix)
           THEN <<ModelPrefix>> \o model = req.model
           ELSE model = req.model
        /\ req.model = <<ModelPrefix, ModelPrefix, "x">> => model = <<ModelPrefix, "x">>
        /\ req.model = <<ModelPrefix>> => model = <<>>
        /\ selected.done =>
              /\ query = model
              /\ \A c \in 1..Len(calls) : calls[c].model = model

C12_Witness ==
    /\ req.valid
    /\ req.model = <<ModelPrefix, ModelPrefix, "x">>
    /\ selected.done
    /\ query = <<ModelPrefix, "x">>
    /\ hpc = "done"

\* C13: a request whose model is exactly "modelplex-" is resolved with the
\* empty model id, fails with NoProviderForModel, and is answered 500.
C13_BarePrefixFails500 ==
    (req.valid /\ req.model = <<ModelPrefix>> /\ selected.done) =>
        /\ query = <<>>
        /\ selected.idx = 0
        /\ herr = "NoProviderForModel"
        /\ calls = <<>>
        /\ hpc = "done" => (w.status = StatusInternalServerError /\ w.headerCalls = 1)

C13_Witness ==
    /\ req.valid
    /\ req.model = <<ModelPrefix>>
    /\ ~StreamOf(req)
    /\ hpc = "done"
    /\ query = <<>>
    /\ herr = "NoProviderForModel"
    /\ w.status = StatusInternalServerError

StreamingOps == {"ChatCompletionStream", "CompletionStream"}

ChatOps == {"ChatCompletion", "ChatCompletionStream"}

\* C14: a decoded request invokes exactly one multiplexer operation, the
\* streaming one when "stream" is true and the non-streaming one when it is
\* absent or false, and a non-streaming request is never answered as
\* text/event-stream; a request that does not decode invokes none.
C14_OneOperationByStreamFlag ==
    /\ Len(invoked) <= 1
    /\ ~req.valid => invoked = <<>>
    /\ (req.valid /\ hpc \notin {"start", "mux"}) => Len(invoked) = 1
    /\ \A i \in 1..Len(invoked) :
          /\ (invoked[i] \in StreamingOps) <=> (req.stream = "true")
          /\ (invoked[i] \in ChatOps) <=> (req.endpoint = "/chat/completions")
    /\ req.stream \in {"absent", "false"} =>
          /\ w.ctype # "text/event-stream"
          /\ NoSSEFrames
          /\ (hpc = "done" /\ req.valid /\ herr = "nil") => w.ctype = "application/json"

C14_Witness ==
    /\ req.valid
    /\ req.stream = "absent"
    /\ hpc = "done"
    /\ invoked = <<"ChatCompletion">>
    /\ w.status = StatusOK
    /\ w.ctype = "application/json"
    /\ Len(w.body) = 1

\* --------------------------------------------------------------------------
\* Claims about the server shell (SpecServer, SpecServerFair)
\* --------------------------------------------------------------------------
StartReturned(i) == starts[i].pc = "returned"

StartFailed(i) == StartReturned(i) /\ starts[i].err # "nil"

\* call i has been through the bind step of its critical section
PastBind(i) == starts[i].pc \in {"signal", "unlock", "publish", "go", "returned", "blocked"}

\* call i is the one whose net.Listen succeeded
BoundBy(i) == PastBind(i) /\ starts[i].err = "nil"

\* a Start call that leaves the critical section with an error has bound
\* nothing, left the socket path alone and signalled nothing
FailingBindChangesNothing ==
    \A i \in StartIds :
        (starts[i].pc = "bind" /\ starts'[i].pc = "unlock") =>
            /\ sockFile' = sockFile
            /\ srv' = srv
            /\ starts'[i].done = <<>>

\* C15 as stated: once one Start call has bound the listener, every other
\* Start call on the instance delivers the 'already running' error.
C15_EveryOtherStartAlreadyRunning ==
    srv.binds = 1 =>
        \A i \in StartIds :
            (StartReturned(i) /\ ~BoundBy(i)) => starts[i].done = <<"AlreadyRunning">>

\* C15 amended: at most one Start call ever binds a listener and readiness is
\* signalled at most once; every Start call whose critical section runs after
\* the binding one delivers 'already running' on its channel; a call whose
\* critical section ran before it delivers the error of its own failed bind;
\* no failing call binds, touches the socket path or signals readiness.
C15_AtMostOneStartBinds ==
    /\ [](/\ srv.binds <= 1
          /\ srv.readyCloses <= 1
          /\ srv.panics = 0
          /\ \A i \in StartIds :
                /\ (PastBind(i) /\ starts[i].ranAfterBind) => starts[i].err = "AlreadyRunning"
                /\ (PastBind(i) /\ ~starts[i].ranAfterBind /\ ~BoundBy(i))
                      => starts[i].err = IF srv.useSocket /\ srv.preexisting # "none"
                                            THEN "SocketExists" ELSE "ListenError"
                /\ StartFailed(i) => starts[i].done = <<starts[i].err>>
                /\ Cardinality({k \in StartIds : BoundBy(k)}) = srv.binds)
    /\ [][FailingBindChangesNothing]_vars

C15_Witness ==
    /\ srv.binds = 1
    /\ \E i \in StartIds :
          /\ StartReturned(i)
          /\ starts[i].ranAfterBind
          /\ starts[i].done = <<"AlreadyRunning">>

\* C16: in socket mode with a file already at the socket path, every Start
\* fails with SocketExists, nothing is bound, readiness is never signalled,
\* and the file stays on disk, also after Stop calls (which return at the
\* test of the started channel).
C16_SocketExistsLeavesFile ==
    (srv.useSocket /\ srv.preexisting = "foreign") =>
        /\ sockFile = "foreign"
        /\ srv.binds = 0 /\ srv.listener = "nil" /\ srv.server = "nil"
        /\ ~srv.ready /\ ~srv.started /\ srv.readyCloses = 0
        /\ \A i \in StartIds :
              /\ starts[i].pc \in {"unlock", "returned"} => starts[i].err = "SocketExists"
              /\ StartReturned(i) => starts[i].done = <<"SocketExists">>
              /\ starts[i].serve = "none"
        /\ \A j \in StopIds : stops[j].pc # "idle" => (stops[j].pc = "done" /\ stops[j].early)

C16_Witness ==
    /\ srv.useSocket /\ srv.preexisting = "foreign"
    /\ \E i \in StartIds : StartReturned(i) /\ starts[i].done = <<"SocketExists">>
    /\ \E j \in StopIds : stops[j].pc = "done"
    /\ sockFile = "foreign"

\* a Stop call that found the server started and went on to shut it down
StopProceeded(j) == stops[j].pc # "idle" /\ ~stops[j].early

StopReturned(j) == stops[j].pc = "done"

\* C17: in socket mode, Stop calls after a successful Start (one or several,
\* one after the other or concurrently) never panic; once one of them has
\* returned there is no file at the socket path, and it stays so; a Stop that
\* finds the file missing at os.Remove reports no error.
C17_StopLeavesNoSocketFile ==
    srv.useSocket =>
        /\ srv.panics = 0
        /\ (\E j \in StopIds : StopProceeded(j) /\ StopReturned(j)) => sockFile = "none"
        /\ \A j \in StopIds :
              /\ StopProceeded(j) => srv.binds = 1
              /\ ~stops[j].logged
              /\ (StopProceeded(j) /\ StopReturned(j)) => stops[j].removeErr = "NotExist"

C17_Witness ==
    /\ srv.useSocket
    /\ \A j \in StopIds : StopProceeded(j) /\ StopReturned(j)
    /\ \E i \in StartIds : StartReturned(i) /\ starts[i].err = "nil"
    /\ sockFile = "none"

\* C18: over any Start and Stop calls the ready channel is closed at most
\* once, readiness once signalled is never withdrawn (Stop included), and the
\* server is ready only if the listener has been bound: a Start that fails
\* leaves readiness as it was.
C18_ReadyOneShotAfterBind ==
    /\ [](/\ srv.readyCloses <= 1
          /\ srv.panics = 0
          /\ srv.ready <=> srv.readyCloses = 1
          /\ srv.ready => (srv.binds = 1 /\ srv.listener # "nil" /\ srv.started))
    /\ [][/\ srv.ready => srv'.ready
          /\ \A i \in StartIds :
                (starts'[i].err # "nil" \/ starts[i].err # "nil") =>
                    (starts'[i] # starts[i] => srv'.ready = srv.ready)]_vars

C18_Witness ==
    /\ srv.ready
    /\ \E i \in StartIds : StartFailed(i)
    /\ \E j \in StopIds : StopProceeded(j) /\ StopReturned(j)

\* C19: readiness is signalled only after the router is mounted and the HTTP
\* server handle is published: whenever the server is ready the handle is
\* set, and a Stop called by someone who observed readiness finds the handle
\* and shuts the server down gracefully.
C19_ReadyOnlyAfterServerPublished ==
    /\ srv.ready => srv.server = "set"
    /\ \A j \in StopIds :
          (stops[j].sawReady /\ stops[j].pc \in {"close", "done"}) =>
              (stops[j].sawServer /\ srv.shutdown)

\* a Start call that bound the listener and returned its channel
StartSucceeded(i) == StartReturned(i) /\ starts[i].err = "nil"

\* C20: the channel a Start call returns is sent to at most once: the start
\* error when Start fails, otherwise the one result of Serve; no send on it
\* blocks; and once a Start has succeeded and a Stop has gone past the started
\* test, the result of Serve is eventually in the channel.
C20_ErrorChannelSingleShot ==
    /\ [](\A i \in StartIds :
             /\ Len(starts[i].done) <= DoneCap
             /\ starts[i].pc # "blocked" /\ starts[i].serve # "blocked"
             /\ StartFailed(i) => (starts[i].done = <<starts[i].err>> /\ starts[i].serve = "none")
             /\ starts[i].err = "nil" =>
                   /\ starts[i].serve = "done" <=> starts[i].done # <<>>
                   /\ starts[i].done # <<>> => starts[i].done[1] \in ServeResults
             /\ starts[i].serve # "none" => (StartSucceeded(i) /\ BoundBy(i)))
    /\ \A i \in StartIds :
          (StartSucceeded(i) /\ \E j \in StopIds : StopProceeded(j))
              ~> (Len(starts[i].done) = 1 /\ starts[i].done[1] \in ServeResults)

C20_Witness ==
    /\ \E i \in StartIds : StartSucceeded(i) /\ starts[i].done = <<"ErrServerClosed">>
    /\ \E i \in StartIds : StartFailed(i) /\ starts[i].done = <<"AlreadyRunning">>
    /\ \E j \in StopIds : StopProceeded(j) /\ StopReturned(j)

\* --------------------------------------------------------------------------
\* Claims about WaitReady (SpecReady)
\* --------------------------------------------------------------------------
\* readiness was signalled before the deadline of the WaitReady call elapsed
ReadyBeforeDeadline == IF wait.expired THEN wait.readyFirst ELSE srv.ready

\* C21 as stated: WaitReady returns nil exactly when readiness was signalled
\* before its deadline elapsed, and the timeout error otherwise.
C21_SuccessIffReadyBeforeDeadline ==
    wait.pc = "done" => (wait.result = "nil" <=> ReadyBeforeDeadline)

\* C21 amended: WaitReady returns nil only when readiness was signalled and
\* the timeout error only when its deadline has elapsed; it returns nil when
\* the deadline has not elapsed and the timeout error when the server is not
\* ready (Start never called, or failed); when the server is ready and the
\* deadline has elapsed too, the select may take either case. No step of the
\* call changes the server's state.
C21_WaitReadyNilOnlyIfReady ==
    /\ [](wait.pc = "done" =>
             /\ wait.result \in {"nil", "timeout"}
             /\ wait.result = "nil" => srv.ready
             /\ wait.result = "timeout" => wait.expired
             /\ ~wait.expired => wait.result = "nil"
             /\ ~srv.ready => wait.result = "timeout")
    /\ [][wait' # wait => UNCHANGED srvVars]_vars

C21_Witness ==
    /\ wait.pc = "done"
    /\ wait.result = "timeout"
    /\ ~srv.ready
    /\ \E i \in StartIds : StartFailed(i)

\* --------------------------------------------------------------------------
\* Claims about the provider adaptors (checked under SpecProvider)
\* --------------------------------------------------------------------------
IsSystem(m) == m.role = Str("system")

NotSystem(m) == ~IsSystem(m)

NonSystemMessages(msgs) == SelectSeq(msgs, NotSystem)

SystemContents(msgs) ==
    LET sys == SelectSeq(msgs, IsSystem) IN [i \in 1..Len(sys) |-> sys[i].content]

RECURSIVE Join(_, _)
Join(cs, sep) ==
    IF cs = <<>> THEN <<>>
    ELSE IF Len(cs) = 1 THEN cs[1]
    ELSE cs[1] \o sep \o Join(Tail(cs), sep)

\* s is the contents joined with one of the usual separators
IsJoinOf(s, cs) == \E sep \in {<<>>, <<" ">>, <<"\n">>, <<"\n", "\n">>} : s = Join(cs, sep)

AnthropicChatSent == out.op = "chat" /\ prov.kind = "anthropic"

\* C22: the Anthropic adaptor, streaming or not, sends as "messages" the input
\* without its system messages, in the input's order, and as "system" the join
\* of the contents of all system messages in order; "system" is absent exactly
\* when there is no system content.
C22_AnthropicSystemIsJoinOfAll ==
    AnthropicChatSent =>
        LET cs == SystemContents(out.input)
        IN  /\ ~out.payload.messages.null
            /\ out.payload.messages.items = NonSystemMessages(out.input)
            /\ out.payload.hasSystem <=> (\E i \in 1..Len(cs) : cs[i] # <<>>)
            /\ out.payload.hasSystem => IsJoinOf(out.payload.system, cs)

\* the credential a request carries
Credential(o) ==
    IF o.auth.name = "Authorization" THEN TrimPrefix(o.auth.value, "Bearer ")
    ELSE o.auth.value

\* C23: a credential given as ${NAME} is read from the environment once, by
\* the constructor; the provider does not change afterwards and every request
\* it sends carries the value it stored, whatever the environment holds by then.
C23_CredentialBoundAtConstruction ==
    /\ [][(prov = NoProvider /\ prov' # NoProvider /\ pcfg.apiKey = ReferenceKey)
            => prov'.apiKey = (IF env.set THEN env.value ELSE <<>>)]_vars
    /\ [][prov # NoProvider => prov' = prov]_vars
    /\ []((out.op = "chat" /\ prov.kind # "ollama") => Credential(out) = prov.apiKey)

\* a request sent with the value of construction after NAME was given another value
C23_Witness ==
    /\ out.op = "chat"
    /\ pcfg.apiKey = ReferenceKey
    /\ prov.apiKey = Str("k1")
    /\ env.set /\ env.value = Str("k2")
    /\ Credential(out) = Str("k1")

\* C24: constructing a provider whose credential is a reference ${NAME} to a
\* variable that is not set fails (ConfigError): no provider with an empty
\* credential comes out of such a configuration.
C24_NoProviderWithEmptyCredential ==
    (prov # NoProvider /\ pcfg.apiKey = ReferenceKey) => prov.apiKey # <<>>

\* a failure of the upstream model listing, as the caller of ListModels sees it
ListingFailure(a) ==
    ~a.reached \/ a.readFails \/ ~(a.status \in 200..299) \/ ~a.body.decodes

UpstreamListing == out.op = "list" /\ out.asked

C27_MalformedMessageRejectedAtIngress ==
    (req.valid /\ Malformed(reqMessages)) =>
        /\ calls = <<>>
        /\ out.op # "chat"
        /\ hpc # "panic"
        /\ hpc # "start" => (hpc = "done" /\ w.status = StatusBadRequest)

\* --------------------------------------------------------------------------
\* Claims about the routes of the server (checked under SpecRoutes)
\* --------------------------------------------------------------------------
InternalPaths ==
    {<<"_internal", "status">>, <<"_internal", "config">>, <<"_internal", "metrics">>}

Answered(method, path) == out.op = "http" /\ out.method = method /\ out.path = path

Routed == out.status \notin {404, 405}

\* C28: GET on /_internal/status, /_internal/config and /_internal/metrics is
\* answered 200 by a server bound to TCP and 404 by a server bound to a socket;
\* /health and the /v1 routes are answered by every server, and the /models/v1
\* routes by the two-mode server in both of its modes.
C28_InternalRoutesOnTCPOnly ==
    /\ \A p \in InternalPaths :
          Answered("GET", p) =>
              out.status = (IF srv.useSocket THEN 404 ELSE StatusOK)
    /\ Answered("GET", <<"health">>) => out.status = StatusOK
    /\ Answered("GET", <<"v1", "models">>) => out.status = StatusOK
    /\ Answered("POST", <<"v1", "chat", "completions">>) => Routed
    /\ Answered("POST", <<"v1", "completions">>) => Routed
    /\ srv.variant = "atomic" =>
          /\ Answered("GET", <<"models", "v1", "models">>) => out.status = StatusOK
          /\ Answered("POST", <<"models", "v1", "chat", "completions">>) => Routed
          /\ Answered("POST", <<"models", "v1", "completions">>) => Routed

\* a socket server of the two-mode variant answers 404 on /_internal/config
C28_Witness ==
    /\ srv.variant = "atomic" /\ srv.useSocket
    /\ Answered("GET", <<"_internal", "config">>)
    /\ out.status = 404

\* --------------------------------------------------------------------------
\* Claims about the end marker of an SSE body (checked under SpecEngine)
\* --------------------------------------------------------------------------
\* the payload of an SSE data line, <<"<no data>">> for another line
Payload(raw) ==
    LET line == TrimSpace(raw)
    IN  IF HasPrefix(line, DataPrefix) THEN TrimPrefix(line, DataPrefix) ELSE <<"<no data>">>

IsBareMarker(raw) == Payload(raw) = <<DoneToken>>

\* the token with white space before or after it on the line
IsSpacedMarker(raw) ==
    /\ raw # <<DataPrefix, DoneToken>>
    /\ Len(raw) >= 1 /\ raw[1] = DataPrefix
    /\ TrimSpace(Tail(raw)) = <<DoneToken>>

\* index of the first line of the body for which Test holds, 0 when there is none
FirstLine(lines, Test(_)) ==
    IF \E i \in 1..Len(lines) : Test(lines[i])
    THEN CHOOSE i \in 1..Len(lines) :
            Test(lines[i]) /\ \A j \in 1..(i - 1) : ~Test(lines[j])
    ELSE 0

ChunkFrames == Cardinality({i \in 1..Len(w.body) : IsSSEFrame(w.body[i]) /\ w.body[i] # DoneFrame})

\* chunks that went over the channel to the handler
Emitted == ChunkFrames + (IF hpc = "write" THEN 1 ELSE 0)

\* nothing of the lines after line d is given to the caller: the reader offers
\* no chunk made of a later line, and the caller has received no more chunks
\* than there are lines before d
NothingAfter(d) ==
    d # 0 => /\ ~(rpc = "send" /\ pos > d)
             /\ Emitted <= d - 1

\* C29: in SSE framing the chunk sequence ends at the first line whose data is
\* exactly [DONE]: no line that comes after it is emitted to the caller.
C29_NothingEmittedAfterDone ==
    useSSE => NothingAfter(FirstLine(upstream, IsBareMarker))

\* C30: an SSE data line whose payload is [DONE] with white space before or
\* after the token ends the chunk sequence as the bare marker does: no line
\* that comes after it is emitted, the line is not dropped as a malformed frame.
C30_SpacedDoneEndsStream ==
    useSSE => NothingAfter(FirstLine(upstream, IsSpacedMarker))

\* --------------------------------------------------------------------------
\* Claims about the reader goroutine, the body handle and cancellation
\* --------------------------------------------------------------------------
\* the reader goroutine runs and the scanner has not returned every line
ReaderHasLines == rpc \in {"scan", "send"} /\ pos < Len(upstream)

\* C31: the upstream body of a streaming request is open while the chunk
\* sequence is produced and closed when it ends: it is not closed while the
\* reader still has lines to read, and it is not left open once the channel is
\* closed and makeStreamingRequest has returned.
C31_BodyOpenWhileProducing ==
    /\ ReaderHasLines => ~bodyClosed
    /\ (chanClosed /\ hpc # "ret") => bodyClosed

\* a chunk goes over the channel to the handler in this step
Delivered == hpc = "recv" /\ hpc' = "write"

\* C32: once the request context is cancelled the reader delivers no further
\* chunk: a chunk that is parsed and offered on the channel when the
\* cancellation is already signalled is dropped, not handed to the handler.
C32_NoChunkAfterCancel == [][cancelled => ~Delivered]_vars

\* the reader drops the chunk it offers: the ctx.Done() case of its select
Dropped == cancelled /\ rpc' = "exit"

\* C33: the reader holds at most one parsed chunk the handler has not
\* received. While it offers a chunk on the unbuffered channel it neither reads
\* from the body nor scans a line nor replaces the chunk, and the offer ends
\* only when the handler takes that chunk or the reader drops it: a handler
\* that is slow stalls the reading of the upstream.
C33_OneChunkInFlight ==
    [][rpc = "send" =>
          /\ rd' = rd /\ pos' = pos /\ chunk' = chunk
          /\ \/ rpc' = "send"
             \/ Delivered /\ hchunk' = chunk
             \/ Dropped]_vars

\* the handler is busy writing a chunk while the reader offers the next one
\* and the body holds a further line
C33_Witness ==
    /\ rpc = "send"
    /\ hpc = "write"
    /\ pos < Len(upstream)
    /\ ~cancelled

\* the reader goroutine of an established stream runs
ReaderRuns == rpc \in {"scan", "send"}

\* C34: once the context of an established stream is cancelled the reader
\* goroutine eventually leaves and closes the channel, also when the handler
\* has returned or the upstream has stalled; the channel is closed once: after
\* the close the reader has left and takes no further step.
C34_ReaderEndsAfterCancel ==
    /\ (cancelled /\ ReaderRuns) ~> (rpc = "exit" /\ chanClosed)
    /\ [][chanClosed => (chanClosed' /\ rpc = "exit" /\ rpc' = "exit")]_vars

\* an adaptor's own reader has left after a cancellation, with lines of the
\* body unread and no end marker met, the handler gone after a failed write
C34_Witness ==
    /\ cancelled
    /\ engine = "inline"
    /\ rpc = "exit" /\ chanClosed
    /\ hpc = "done" /\ writeFailed
    /\ pos < Len(upstream)
    /\ \A i \in 1..pos : ~IsBareMarker(upstream[i])

\* --------------------------------------------------------------------------
\* Claim about two concurrent streaming requests (checked under SpecPair)
\* --------------------------------------------------------------------------
IsPrefixOf(a, b) == Len(a) <= Len(b) /\ SubSeq(b, 1, Len(a)) = a

\* the chunk frames request r was given: those written, without the closing
\* marker, and the one its handler holds
FramesOf(r) ==
    LET b == pair[r].w.body
        c == IF b # <<>> /\ b[Len(b)] = DoneFrame THEN SubSeq(b, 1, Len(b) - 1) ELSE b
    IN  IF pair[r].hpc = "write" THEN Append(c, ChunkFrame(pair[r].hchunk)) ELSE c

OwnChunks(r) ==
    ExpectedChunks(pair[r].upstream, pair[r].engine, pair[r].useSSE, pair[r].kind)

\* C35: of two streaming requests handled at the same time, each caller is
\* given frames of its own upstream body only, in the order of that body, in
\* every interleaving of the two readers and the two handlers.
C35_StreamsDoNotMix ==
    \A r \in ReqIds : IsPrefixOf(FramesOf(r), OwnChunks(r))

\* both handlers hold a chunk at the same time, each after a first frame, and
\* the two bodies differ from the first line on
C35_Witness ==
    /\ \A r \in ReqIds : pair[r].hpc = "write" /\ Len(pair[r].w.body) = 1
    /\ pair[1].hchunk # pair[2].hchunk
    /\ pair[1].w.body # pair[2].w.body

\* --------------------------------------------------------------------------
\* Claims about Start against Stop, restart and Addr (SpecServer, SpecServerFair)
\* --------------------------------------------------------------------------
\* no listener of the instance is open and the socket it made is not on disk
Released == srv.listener # "open" /\ (srv.useSocket => sockFile # "socket")

\* one Start and one Stop have been called on the instance
OneStartOneStop ==
    /\ Cardinality({i \in StartIds : starts[i].pc # "idle"}) = 1
    /\ Cardinality({j \in StopIds : stops[j].pc # "idle"}) = 1

\* C36 as stated: for every interleaving of a Start and a Stop, once both have
\* returned the listener is closed and no socket file remains, and the channel
\* of the Start eventually delivers a value.
C36_StartAndStopLeaveNothing ==
    /\ [](\A i \in StartIds, j \in StopIds :
             (OneStartOneStop /\ StartReturned(i) /\ StopReturned(j)) => Released)
    /\ \A i \in StartIds :
          (StartReturned(i) /\ \E j \in StopIds : StopReturned(j)) ~> (starts[i].done # <<>>)

\* C36 amended: a Stop that finds the instance started (also one that runs
\* after the bind and before the server handle is published) leaves, once it
\* has returned, the listener closed and no file at the socket path, and the
\* channel of the Start that bound eventually delivers the result of Serve. A
\* Stop that runs its test before the Start signals returns at the test and
\* the Start goes on to serve.
C36_StopAfterStartedReleases ==
    /\ [](\A j \in StopIds :
             /\ (StopProceeded(j) /\ StopReturned(j)) =>
                    (srv.listener = "closed" /\ (srv.useSocket => sockFile = "none"))
             /\ (stops[j].pc # "idle" /\ stops[j].early) => stops[j].pc = "done")
    /\ (\E j \in StopIds : StopProceeded(j) /\ StopReturned(j))
          ~> (\E i \in StartIds :
                 /\ StartSucceeded(i) /\ BoundBy(i)
                 /\ starts[i].serve = "done" /\ starts[i].done # <<>>)

\* a Stop ran between the bind and the publication of the server handle,
\* skipped Shutdown and returned; the Start returned and Serve failed on the
\* closed listener
C36_Witness ==
    /\ srv.variant = "atomic"
    /\ \E j \in StopIds : StopProceeded(j) /\ StopReturned(j) /\ ~stops[j].sawServer
    /\ \E i \in StartIds : StartSucceeded(i) /\ starts[i].done = <<"AcceptError">>
    /\ srv.listener = "closed"
    /\ ~srv.shutdown

\* a Start call made after a Stop that shut the instance down had returned
LaterStart(i) == starts[i].pc # "idle" /\ starts[i].afterStop

\* C37: an instance cannot be restarted: a Start called after a successful
\* Start and a Stop fails with the 'already running' error, which is what its
\* channel delivers; it binds nothing and leaves the socket path alone: the
\* listener stays closed and no socket file comes back.
C37_NoRestartAfterStop ==
    /\ [](\A i \in StartIds :
             LaterStart(i) =>
                 /\ srv.binds = 1
                 /\ srv.listener = "closed"
                 /\ srv.useSocket => sockFile = "none"
                 /\ PastBind(i) => starts[i].err = "AlreadyRunning"
                 /\ StartReturned(i) => starts[i].done = <<"AlreadyRunning">>
                 /\ starts[i].serve = "none")
    /\ [][\A i \in StartIds :
             (LaterStart(i) /\ starts'[i] # starts[i]) =>
                 (srv' = srv /\ sockFile' = sockFile)]_vars

C37_Witness ==
    /\ srv.useSocket
    /\ \E i \in StartIds : StartSucceeded(i)
    /\ \E i \in StartIds :
          LaterStart(i) /\ StartReturned(i) /\ starts[i].done = <<"AlreadyRunning">>
    /\ sockFile = "none"

\* a step of Stop call j
StopStep(j) == stops'[j] # stops[j]

\* C38: a Stop on an instance on which no Start has bound a listener (Start
\* never called, or failed before binding) is a no-op: it returns at the test
\* of the started channel, shuts down nothing, closes nothing and removes
\* nothing at the socket path.
C38_StopBeforeBindIsNoOp ==
    /\ [](srv.binds = 0 =>
             /\ srv.listener = "nil" /\ ~srv.shutdown /\ srv.panics = 0
             /\ sockFile = srv.preexisting
             /\ \A j \in StopIds : stops[j].pc # "idle" => (stops[j].pc = "done" /\ stops[j].early))
    /\ [][\A j \in StopIds :
             (srv.binds = 0 /\ StopStep(j)) =>
                 /\ srv' = srv /\ sockFile' = sockFile
                 /\ stops'[j].pc = "done"]_vars

\* a Stop has returned on an instance whose only Start failed at the file
\* that was at the socket path, and the file is still there
C38_Witness ==
    /\ srv.binds = 0
    /\ \E i \in StartIds : StartFailed(i)
    /\ \E j \in StopIds : StopReturned(j) /\ stops[j].early
    /\ srv.useSocket /\ sockFile = "foreign"

\* C39: Addr returns nil in socket mode and as long as no Start has bound a
\* listener; in TCP mode, from the signal of readiness on, every call returns
\* the address that was bound, the same one at every later moment, before and
\* after Stop.
C39_AddrIsBoundAddress ==
    /\ [](/\ srv.useSocket => Addr(srv) = "nil"
          /\ srv.binds = 0 => Addr(srv) = "nil"
          /\ (~srv.useSocket /\ srv.ready) =>
                 (Addr(srv) \in ListenAddrs(FALSE) /\ Addr(srv) = srv.addr))
    /\ [][(~srv.useSocket /\ srv.ready) => Addr(srv') = Addr(srv)]_vars

\* in TCP mode a Stop has shut the instance down and returned, a later Start
\* has failed, and Addr still answers the bound address
C39_Witness ==
    /\ ~srv.useSocket /\ srv.ready
    /\ \E j \in StopIds : StopProceeded(j) /\ StopReturned(j)
    /\ \E i \in StartIds : StartFailed(i) /\ starts[i].err = "AlreadyRunning"
    /\ srv.listener = "closed"
    /\ Addr(srv) = "127.0.0.1:49153"

====
